---- MODULE Spec2Model ----
(***************************************************************************)
(* State-machine model of stig's typed settings and the commands that      *)
(* change them: the Number value type (stig/utils/stringables.py) and the  *)
(* `set`, `reset` and `ratelimit` commands (stig/commands/base/config.py). *)
(*                                                                         *)
(* Conventions                                                             *)
(*   - A Python string is a sequence of one-character strings, so that     *)
(*     slicing, stripping and the number regex are computed, not assumed.  *)
(*   - A Python float is a C double, computed exactly: its sign, 53-bit    *)
(*     mantissa and exponent, or one of +inf, -inf, nan (see Floats).      *)
(*   - A Python int is an integer of any size, computed exactly.           *)
(*   - None is written as a value of the same shape with a "none" tag.     *)
(***************************************************************************)
EXTENDS Integers, Sequences, FiniteSets, TLC

(***************************************************************************)
(* Characters and strings                                                  *)
(***************************************************************************)

\* str.lower() on ASCII letters
LowerMap ==
    ("A" :> "a") @@ ("B" :> "b") @@ ("C" :> "c") @@ ("D" :> "d") @@
    ("E" :> "e") @@ ("F" :> "f") @@ ("G" :> "g") @@ ("H" :> "h") @@
    ("I" :> "i") @@ ("J" :> "j") @@ ("K" :> "k") @@ ("L" :> "l") @@
    ("M" :> "m") @@ ("N" :> "n") @@ ("O" :> "o") @@ ("P" :> "p") @@
    ("Q" :> "q") @@ ("R" :> "r") @@ ("S" :> "s") @@ ("T" :> "t") @@
    ("U" :> "u") @@ ("V" :> "v") @@ ("W" :> "w") @@ ("X" :> "x") @@
    ("Y" :> "y") @@ ("Z" :> "z")

Lower(c) == IF c \in DOMAIN LowerMap THEN LowerMap[c] ELSE c

LowerStr(s) == [i \in 1..Len(s) |-> Lower(s[i])]

DigitVal ==
    ("0" :> 0) @@ ("1" :> 1) @@ ("2" :> 2) @@ ("3" :> 3) @@ ("4" :> 4) @@
    ("5" :> 5) @@ ("6" :> 6) @@ ("7" :> 7) @@ ("8" :> 8) @@ ("9" :> 9)

IsDigit(c) == c \in DOMAIN DigitVal

\* the ASCII characters that str.strip() removes and the regex class \s matches
Whitespace == {" ", "\t", "\n", "\r", "\f", "", "", "", "", ""}

\* s[i:] and s[:n] of Python (1-based i here)
Drop(s, n) == SubSeq(s, n + 1, Len(s))

Take(s, n) == SubSeq(s, 1, IF n < Len(s) THEN n ELSE Len(s))

\* s.startswith(p)
StartsWith(s, p) == Len(s) >= Len(p) /\ SubSeq(s, 1, Len(p)) = p

\* s.endswith(p)
EndsWith(s, p) == Len(s) >= Len(p) /\ SubSeq(s, Len(s) - Len(p) + 1, Len(s)) = p

RECURSIVE LStrip(_, _)
LStrip(s, chars) ==
    IF s # <<>> /\ Head(s) \in chars THEN LStrip(Tail(s), chars) ELSE s

RECURSIVE RStrip(_, _)
RStrip(s, chars) ==
    LET Upper(h) ==
            IF \A i \in (h + 1)..Len(s) : s[i] \in chars THEN RStrip(SubSeq(s, 1, h), chars)
            ELSE SubSeq(s, 1, h) \o RStrip(SubSeq(s, h + 1, Len(s)), chars)
    IN  IF s = <<>> \/ s[Len(s)] \notin chars THEN s
        ELSE IF Len(s) = 1 THEN <<>>
        ELSE Upper(Len(s) \div 2)

\* str.strip(): whitespace at both ends; str.strip('\n'): newlines at both ends
Strip(s) == RStrip(LStrip(s, Whitespace), Whitespace)

StripNewlines(s) == RStrip(LStrip(s, {"\n"}), {"\n"})

\* ' '.join(tokens)
RECURSIVE JoinSpace(_)
JoinSpace(tokens) ==
    IF tokens = <<>> THEN <<>>
    ELSE IF Len(tokens) = 1 THEN tokens[1]
    ELSE tokens[1] \o <<" ">> \o JoinSpace(Tail(tokens))

(***************************************************************************)
(* Calls by name                                                           *)
(*                                                                         *)
(* The operators of the arithmetic and of the Number classes call one      *)
(* another by name: F_(x, ...) is F(x, ...), selected by Invoke.           *)
(***************************************************************************)

RECURSIVE Invoke(_, _)
BMul_(x1, x2) == Invoke("BMul", <<x1, x2>>)
BDigits_(x1) == Invoke("BDigits", <<x1>>)
BDigitsValue_(ds) == Invoke("BDigitsValue", <<ds>>)
BPower_(x1, x2) == Invoke("BPower", <<x1, x2>>)
ZDivMod_(x1, x2) == Invoke("ZDivMod", <<x1, x2>>)
ZAdd_(x1, x2) == Invoke("ZAdd", <<x1, x2>>)
IntF_(x1, x2) == Invoke("IntF", <<x1, x2>>)
IntOf_(x1) == Invoke("IntOf", <<x1>>)
AsFloat_(x1) == Invoke("AsFloat", <<x1>>)

BRound_(x, s) == Invoke("BRound", <<x, s>>)
BDigit_(r, q) == Invoke("BDigit", <<r, q>>)
BDivMod_(p, q) == Invoke("BDivMod", <<p, q>>)
BRoundDiv_(p, q) == Invoke("BRoundDiv", <<p, q>>)
DNorm_(s, m, e) == Invoke("DNorm", <<s, m, e>>)
DQuot_(s, p, q, x) == Invoke("DQuot", <<s, p, q, x>>)
ToD_(a) == Invoke("ToD", <<a>>)
DTimes_(d, n) == Invoke("DTimes", <<d, n>>)
FromD_(d) == Invoke("FromD", <<d>>)
DCmp_(a, b) == Invoke("DCmp", <<a, b>>)
DAdd_(a, b) == Invoke("DAdd", <<a, b>>)
DSub_(a, b) == Invoke("DSub", <<a, b>>)
DMul_(a, b) == Invoke("DMul", <<a, b>>)
DDiv_(a, b) == Invoke("DDiv", <<a, b>>)
DFmod_(a, b) == Invoke("DFmod", <<a, b>>)
DFloor_(a) == Invoke("DFloor", <<a>>)
DCeil_(a) == Invoke("DCeil", <<a>>)
DRound_(a) == Invoke("DRound", <<a>>)
FLt_(a, b) == Invoke("FLt", <<a, b>>)
FGt_(a, b) == Invoke("FGt", <<a, b>>)
FGe_(a, b) == Invoke("FGe", <<a, b>>)
FAdd_(a, b) == Invoke("FAdd", <<a, b>>)
FSub_(a, b) == Invoke("FSub", <<a, b>>)
FMul_(a, b) == Invoke("FMul", <<a, b>>)
FDiv_(a, b) == Invoke("FDiv", <<a, b>>)
FScale_(a, n) == Invoke("FScale", <<a, n>>)
FDivInt_(a, n) == Invoke("FDivInt", <<a, n>>)
FFloor_(a) == Invoke("FFloor", <<a>>)
FCeil_(a) == Invoke("FCeil", <<a>>)
FRound_(a) == Invoke("FRound", <<a>>)
BPow_(b, e) == Invoke("BPow", <<b, e>>)
DDivMod_(a, b) == Invoke("DDivMod", <<a, b>>)
FDivMod_(a, b) == Invoke("FDivMod", <<a, b>>)
FPower_(a, b) == Invoke("FPower", <<a, b>>)
PrefixSize_(entry) == Invoke("PrefixSize", <<entry>>)
DecimalValue_(int, frac) == Invoke("DecimalValue", <<int, frac>>)
MatchNumber_(s) == Invoke("MatchNumber", <<s>>)
RegexMatch_(string) == Invoke("RegexMatch", <<string>>)
Convert_(val, unit, convert_to) == Invoke("Convert", <<val, unit, convert_to>>)
NumberFinish_(cls, value, unit, prefix, hide_unit, kw) ==
    Invoke("NumberFinish", <<cls, value, unit, prefix, hide_unit, kw>>)
NumberRound_(cls, value, unit, prefix, hide_unit, kw) ==
    Invoke("NumberRound", <<cls, value, unit, prefix, hide_unit, kw>>)
NumberConvert_(cls, value, unit, prefix, hide_unit, kw) ==
    Invoke("NumberConvert", <<cls, value, unit, prefix, hide_unit, kw>>)
NumberNew_(cls, value, kw) == Invoke("NumberNew", <<cls, value, kw>>)
NumberObject_(cls, value, prefix, hide_unit, kw) == Invoke("NumberObject", <<cls, value, prefix, hide_unit, kw>>)
float_of_bytes_(value) == Invoke("float_of_bytes", <<value>>)
string_to_double_(sign, sig, e10) == Invoke("string_to_double", <<sign, sig, e10>>)
NewFloat_(value, kw) == Invoke("NewFloat", <<value, kw>>)
NewInt_(value, kw) == Invoke("NewInt", <<value, kw>>)
FloatFunc_(funcname, a, b) == Invoke("FloatFunc", <<funcname, a, b>>)
IntFunc_(funcname, a, b) == Invoke("IntFunc", <<funcname, a, b>>)
Rewrap_(self, result) == Invoke("Rewrap", <<self, result>>)
do_math_(self, funcname, other) == Invoke("do_math", <<self, funcname, other>>)
pretty_float_(n) == Invoke("pretty_float", <<n>>)
FloatRepr_(a) == Invoke("FloatRepr", <<a>>)
number_string_(self, unit, precise) == Invoke("number_string", <<self, unit, precise>>)
str_(self) == Invoke("str", <<self>>)
NumberOf_(name, r) == Invoke("NumberOf", <<name, r>>)
Default_(name) == Invoke("Default", <<name>>)
Validate_(name, value) == Invoke("Validate", <<name, value>>)
to_num_(string) == Invoke("to_num", <<string>>)
get_operator_(value) == Invoke("get_operator", <<value>>)
adjust_current_(current) == Invoke("adjust_current", <<current>>)
adjust_value_(current, op, value) == Invoke("adjust_value", <<current, op, value>>)
unbound_result_(current, op, value) == Invoke("unbound_result", <<current, op, value>>)
resolve_(name, tokens, cur) == Invoke("resolve", <<name, tokens, cur>>)

(***************************************************************************)
(* Naturals of any size                                                    *)
(*                                                                         *)
(* The mantissa arithmetic of a C double needs integers of more than 100   *)
(* bits.  A big natural is the sequence of its digits in base 2^14, least  *)
(* significant first, without leading zeros (0 is the empty sequence).     *)
(***************************************************************************)

RECURSIVE Pow(_, _)
Pow(b, e) == IF e = 0 THEN 1 ELSE b * Pow(b, e - 1)

Limb == Pow(2, 14)

\* 2^i for i in 0..14
Pow2 == [i \in 0..14 |-> Pow(2, i)]

RECURSIVE BNat(_)
BNat(n) == IF n = 0 THEN <<>> ELSE <<n % Limb>> \o BNat(n \div Limb)

\* the value of a big natural below 2^31
RECURSIVE BInt(_)
BInt(x) == IF x = <<>> THEN 0 ELSE x[1] + Limb * BInt(Tail(x))

BFits(x) == Len(x) <= 2 \/ (Len(x) = 3 /\ x[3] < 8)

\* x without its leading zero digits
RECURSIVE BTrim(_)
BTrim(x) ==
    LET Upper(h) ==
            IF \A i \in (h + 1)..Len(x) : x[i] = 0 THEN BTrim(SubSeq(x, 1, h))
            ELSE SubSeq(x, 1, h) \o BTrim(SubSeq(x, h + 1, Len(x)))
    IN  IF x = <<>> \/ x[Len(x)] # 0 THEN x
        ELSE IF Len(x) = 1 THEN <<>>
        ELSE Upper(Len(x) \div 2)

\* x with zero digits added up to n digits
BPad(x, n) == x \o [i \in 1..(n - Len(x)) |-> 0]

\* -1, 0 or 1 as x is below, equal to or above y
BCmp(x, y) ==
    LET Top(d) == CHOOSE i \in d : \A j \in d : j <= i
        At(i) == IF x[i] < y[i] THEN 0 - 1 ELSE 1
        Differ(d) == IF d = {} THEN 0 ELSE At(Top(d))
    IN  IF Len(x) < Len(y) THEN 0 - 1
        ELSE IF Len(x) > Len(y) THEN 1
        ELSE Differ({i \in 1..Len(x) : x[i] # y[i]})

\* The operations on n digits split the digits in two halves, so that a
\* number of n digits takes log n nested steps; the carry of one half is
\* computed before the other half is entered.

\* x + y + c for x and y of the same n >= 1 digits: the n digits of the sum,
\* then the carry
RECURSIVE BAddC(_, _, _)
BAddC(x, y, c) ==
    LET h == Len(x) \div 2
        High(lo) ==
            SubSeq(lo, 1, h)
            \o (IF lo[h + 1] = 0 THEN BAddC(SubSeq(x, h + 1, Len(x)), SubSeq(y, h + 1, Len(x)), 0)
                ELSE BAddC(SubSeq(x, h + 1, Len(x)), SubSeq(y, h + 1, Len(x)), 1))
    IN  IF Len(x) = 1 THEN <<(x[1] + y[1] + c) % Limb, (x[1] + y[1] + c) \div Limb>>
        ELSE High(BAddC(SubSeq(x, 1, h), SubSeq(y, 1, h), c))

BAdd(x, y) ==
    LET n == IF Len(x) > Len(y) THEN Len(x) ELSE Len(y)
        Carried(r) == IF r[n + 1] = 0 THEN SubSeq(r, 1, n) ELSE r
    IN  IF x = <<>> THEN y
        ELSE IF y = <<>> THEN x
        ELSE Carried(BAddC(BPad(x, n), BPad(y, n), 0))

\* x - y - c for x and y of the same n >= 1 digits: the n digits of the
\* difference, then the borrow
RECURSIVE BSubC(_, _, _)
BSubC(x, y, c) ==
    LET h == Len(x) \div 2
        High(lo) ==
            SubSeq(lo, 1, h)
            \o (IF lo[h + 1] = 0 THEN BSubC(SubSeq(x, h + 1, Len(x)), SubSeq(y, h + 1, Len(x)), 0)
                ELSE BSubC(SubSeq(x, h + 1, Len(x)), SubSeq(y, h + 1, Len(x)), 1))
        Diff(d) == IF d < 0 THEN <<d + Limb, 1>> ELSE <<d, 0>>
    IN  IF Len(x) = 1 THEN Diff(x[1] - y[1] - c)
        ELSE High(BSubC(SubSeq(x, 1, h), SubSeq(y, 1, h), c))

\* x - y for x >= y
BSub(x, y) ==
    IF y = <<>> THEN x ELSE BTrim(SubSeq(BSubC(x, BPad(y, Len(x)), 0), 1, Len(x)))

\* x * k + c for x of n >= 1 digits and k, c <= 2^14: the n digits of the
\* result, then the carry
RECURSIVE BMulC(_, _, _)
BMulC(x, k, c) ==
    LET h == Len(x) \div 2
        High(lo) ==
            SubSeq(lo, 1, h)
            \o (IF lo[h + 1] = 0 THEN BMulC(SubSeq(x, h + 1, Len(x)), k, 0)
                ELSE BMulC(SubSeq(x, h + 1, Len(x)), k, lo[h + 1]))
    IN  IF Len(x) = 1 THEN <<(x[1] * k + c) % Limb, (x[1] * k + c) \div Limb>>
        ELSE High(BMulC(SubSeq(x, 1, h), k, c))

\* x * k for 0 <= k <= 2^14
BMulSmall(x, k) ==
    LET Carried(r) == IF r[Len(x) + 1] = 0 THEN SubSeq(r, 1, Len(x)) ELSE r
    IN  IF k = 0 \/ x = <<>> THEN <<>> ELSE Carried(BMulC(x, k, 0))

RECURSIVE BMul(_, _)
BMul(x, y) ==
    LET h == Len(y) \div 2
        Shifted(r) == IF r = <<>> THEN <<>> ELSE [i \in 1..h |-> 0] \o r
    IN  IF x = <<>> \/ y = <<>> THEN <<>>
        ELSE IF Len(y) = 1 THEN BMulSmall(x, y[1])
        ELSE BAdd(BMul(x, BTrim(SubSeq(y, 1, h))), Shifted(BMul(x, SubSeq(y, h + 1, Len(y)))))

\* x * 2^s
BShl(x, s) ==
    IF x = <<>> THEN <<>>
    ELSE [i \in 1..(s \div 14) |-> 0] \o BMulSmall(x, Pow2[s % 14])

\* (r * 2^(14 n) + x) divided by k, for x of n >= 1 digits and r < k <= 2^14:
\* the remainder, then the n digits of the quotient
RECURSIVE BDivC(_, _, _)
BDivC(x, k, r) ==
    LET h == Len(x) \div 2
        Low(hi) ==
            (IF hi[1] = 0 THEN BDivC(SubSeq(x, 1, h), k, 0) ELSE BDivC(SubSeq(x, 1, h), k, hi[1]))
            \o Tail(hi)
    IN  IF Len(x) = 1 THEN <<(r * Limb + x[1]) % k, (r * Limb + x[1]) \div k>>
        ELSE Low(BDivC(SubSeq(x, h + 1, Len(x)), k, r))

\* floor(x / k) for 0 < k <= 2^14
BDivSmall(x, k) ==
    LET Quot(d) == IF d[Len(d)] = 0 THEN SubSeq(d, 2, Len(d) - 1) ELSE Tail(d)
    IN  IF x = <<>> THEN <<>> ELSE Quot(BDivC(x, k, 0))

\* x mod k for 0 < k <= 2^14
BModSmall(x, k) == IF x = <<>> THEN 0 ELSE BDivC(x, k, 0)[1]

\* floor(x / 2^s)
BShr(x, s) ==
    IF Len(x) <= s \div 14 THEN <<>>
    ELSE BDivSmall(SubSeq(x, (s \div 14) + 1, Len(x)), Pow2[s % 14])

\* the number of bits of x
BBits(x) ==
    LET RECURSIVE Bits(_)
        Bits(n) == IF n = 0 THEN 0 ELSE 1 + Bits(n \div 2)
    IN  IF x = <<>> THEN 0 ELSE 14 * (Len(x) - 1) + Bits(x[Len(x)])

\* the nearest integer to n / d by the remainder r of the division, ties to even
BNearest(q, r, d) ==
    LET Up(c) == c > 0 \/ (c = 0 /\ q # <<>> /\ q[1] % 2 = 1)
    IN  IF Up(BCmp(BAdd(r, r), d)) THEN BAdd(q, <<1>>) ELSE q

\* the nearest integer to x / 2^s, ties to even
BRound(x, s) ==
    LET Rounded(q) == BNearest(q, BSub(x, BShl(q, s)), BShl(<<1>>, s))
    IN  IF s <= 0 THEN BShl(x, 0 - s) ELSE Rounded(BShr(x, s))

\* floor(r / q) for 0 < q and r < q * 2^14: the leading 16 bits of q bound the
\* digit from both sides, and the largest candidate with q * d <= r is taken
BDigit(r, q) ==
    LET RECURSIVE Pick(_, _)
        Pick(d, lo) == IF d <= lo \/ BCmp(BMulSmall(q, d), r) <= 0 THEN d ELSE Pick(d - 1, lo)
        Between(lo, hi) == Pick(IF hi < Limb THEN hi ELSE Limb - 1, lo)
        Lead(rh, qh) == Between(rh \div (qh + 1), (rh + 1) \div qh)
        Cut(s) == IF s = 0 THEN BInt(r) \div BInt(q)
                  ELSE Lead(BInt(BShr(r, s)), BInt(BShr(q, s)))
    IN  IF BCmp(r, q) < 0 THEN 0 ELSE Cut(IF BBits(q) > 16 THEN BBits(q) - 16 ELSE 0)

\* quotient and remainder of p by q > 0: long division.  The upper half of
\* the digits of the quotient comes from the upper digits of p, the lower
\* half from what is left of them and the lower digits of p.
RECURSIVE BDivMod(_, _)
BDivMod(p, q) ==
    LET h == (Len(p) - Len(q) + 1) \div 2
        Digit(d) == [q |-> IF d = 0 THEN <<>> ELSE <<d>>, r |-> BSub(p, BMulSmall(q, d))]
        Joined(hi, lo) == [q |-> lo.q \o [i \in 1..(h - Len(lo.q)) |-> 0] \o hi.q, r |-> lo.r]
        Low(hi) == IF hi.r = <<>> THEN Joined(hi, BDivMod(BTrim(SubSeq(p, 1, h)), q))
                   ELSE Joined(hi, BDivMod(SubSeq(p, 1, h) \o hi.r, q))
    IN  IF BCmp(p, q) < 0 THEN [q |-> <<>>, r |-> p]
        ELSE IF Len(p) = Len(q) \/ BCmp(p, <<0>> \o q) < 0 THEN Digit(BDigit_(p, q))
        ELSE Low(BDivMod(SubSeq(p, h + 1, Len(p)), q))

\* the nearest integer to p / q, ties to even
BRoundDiv(p, q) ==
    LET Rounded(d) == BNearest(d.q, d.r, q)
    IN  Rounded(BDivMod_(p, q))

(***************************************************************************)
(* Floats                                                                  *)
(*                                                                         *)
(* A finite float is a C double.  [k |-> "fin", v |-> n] is the double     *)
(* nearest to n / Scale, which is what float() makes of a decimal text     *)
(* with three decimals.  Any other double carries its sign s, its 53-bit   *)
(* mantissa m and its exponent e, the value being s * m * 2^e, and v is    *)
(* the nearest integer to Scale times the value (MaxInt at most).  A       *)
(* double is never written in the long form when the short one denotes it, *)
(* so equal floats are equal records.  The sign of zero is not modelled.   *)
(*                                                                         *)
(* A Python int is written as the float of the same value.  An int that is *)
(* no double (it needs more than 53 bits, or is 2^1024 or more) is written *)
(* in the long form with e = 0 and its whole magnitude as m.               *)
(***************************************************************************)

\* the decimal resolution of the short form: three decimal places
Scale == 1000

\* the largest integer of the model checker
MaxInt == Pow(2, 30) + (Pow(2, 30) - 1)

Fin(n) == [k |-> "fin", v |-> n]

PInf == [k |-> "pinf", v |-> 0]

NInf == [k |-> "ninf", v |-> 0]

NaN == [k |-> "nan", v |-> 0]

\* None where a float is expected (min=None, max=None)
NoneF == [k |-> "none", v |-> 0]

\* An integer n as a float
Whole(n) == Fin(n * Scale)

\* nearest multiple of d to n, ties to even
RoundDiv(n, d) ==
    LET q == n \div d
        r == n % d
    IN  IF 2 * r < d THEN q
        ELSE IF 2 * r > d THEN q + 1
        ELSE IF q % 2 = 0 THEN q ELSE q + 1

\* a double by its parts
Dbl(s, m, e) == [s |-> s, m |-> m, e |-> e]

\* the least exponent of a double: below 2^-1022 the doubles are the
\* multiples of 2^-1074 (denormals)
MinExp == 0 - 1074

\* the double nearest to s * m * 2^e, ties to even, its mantissa written
\* with 53 bits
DNorm(s, m, e) ==
    LET Carry(r, x) == IF BBits(r) > 53 THEN Dbl(s, BShr(r, 1), x + 1) ELSE Dbl(s, r, x)
        \* r * 2^MinExp
        Low(r) == IF r = <<>> THEN Dbl(1, <<>>, 0)
                  ELSE Dbl(s, BShl(r, 53 - BBits(r)), MinExp - (53 - BBits(r)))
        Cut(k) == IF e + k < MinExp THEN Low(BRound_(m, MinExp - e))
                  ELSE IF k > 0 THEN Carry(BRound_(m, k), e + k)
                  ELSE Dbl(s, BShl(m, 0 - k), e + k)
    IN  IF m = <<>> THEN Dbl(1, <<>>, 0) ELSE Cut(BBits(m) - 53)

\* the double nearest to s * (p / q) * 2^x for q > 0: the quotient to 55 bits
\* or more, and one more bit that tells whether anything is left
DQuot(s, p, q, x) ==
    LET Sticky(d) == BAdd(BAdd(d.q, d.q), IF d.r = <<>> THEN <<>> ELSE <<1>>)
        Scaled(t) ==
            DNorm_(s, Sticky(BDivMod_(IF t > 0 THEN BShl(p, t) ELSE p,
                                    IF t > 0 THEN q ELSE BShl(q, 0 - t))),
                  x - t - 1)
    IN  IF p = <<>> THEN Dbl(1, <<>>, 0) ELSE Scaled(55 - (BBits(p) - BBits(q)))

\* the double of a finite float
ToD(a) ==
    LET Short(s, n) ==
            IF n % 125 = 0 THEN DNorm_(s, BNat(n \div 125), 0 - 3)
            ELSE DQuot_(s, BNat(n), BNat(Scale), 0)
    IN  IF "m" \in DOMAIN a THEN Dbl(a.s, a.m, a.e)
        ELSE IF a.v < 0 THEN Short(0 - 1, 0 - a.v)
        ELSE Short(1, a.v)

\* the nearest integer to |d| * n, ties to even, for 0 < n <= 2^14
DTimes(d, n) == BRound_(BMulSmall(d.m, n), 0 - d.e)

\* the float of a double: the short form when it denotes this double, and
\* an infinity from 2^1024 on
FromD(d) ==
    LET Long(v) == [k |-> "fin", v |-> d.s * v, s |-> d.s, m |-> d.m, e |-> d.e]
        Short(v) == IF ToD_(Fin(d.s * v)) = d THEN Fin(d.s * v) ELSE Long(v)
        Form(v) == IF BFits(v) THEN Short(BInt(v)) ELSE Long(MaxInt)
    IN  IF d.m = <<>> THEN Fin(0)
        ELSE IF d.e + 53 > 1024 THEN (IF d.s > 0 THEN PInf ELSE NInf)
        ELSE Form(DTimes_(d, Scale))

\* -1, 0 or 1 as the double a is below, equal to or above b
DCmp(a, b) ==
    LET Mag(x, y) == BCmp(BShl(a.m, x), BShl(b.m, y))
        Abs(lo) == Mag(a.e - lo, b.e - lo)
    IN  IF a.m = <<>> THEN (IF b.m = <<>> THEN 0 ELSE 0 - b.s)
        ELSE IF b.m = <<>> THEN a.s
        ELSE IF a.s # b.s THEN a.s
        ELSE a.s * Abs(IF a.e < b.e THEN a.e ELSE b.e)

\* the exact sum of two doubles, rounded
DAdd(a, b) ==
    LET Sum(x, y, lo) ==
            IF a.s = b.s THEN DNorm_(a.s, BAdd(x, y), lo)
            ELSE IF BCmp(x, y) >= 0 THEN DNorm_(a.s, BSub(x, y), lo)
            ELSE DNorm_(b.s, BSub(y, x), lo)
        Aligned(lo) == Sum(BShl(a.m, a.e - lo), BShl(b.m, b.e - lo), lo)
    IN  IF a.m = <<>> THEN b
        ELSE IF b.m = <<>> THEN a
        ELSE Aligned(IF a.e < b.e THEN a.e ELSE b.e)

DNeg(a) == IF a.m = <<>> THEN a ELSE Dbl(0 - a.s, a.m, a.e)

DSub(a, b) == DAdd_(a, DNeg(b))

DMul(a, b) == DNorm_(a.s * b.s, BMul_(a.m, b.m), a.e + b.e)

\* a / b for b # 0
DDiv(a, b) == DQuot_(a.s * b.s, a.m, b.m, a.e - b.e)

\* C's fmod(a, b) for b # 0: exact, with the sign of a
DFmod(a, b) ==
    LET Rem(x, y, lo) == DNorm_(a.s, BDivMod_(x, y).r, lo)
        Aligned(lo) == Rem(BShl(a.m, a.e - lo), BShl(b.m, b.e - lo), lo)
    IN  IF a.m = <<>> THEN a ELSE Aligned(IF a.e < b.e THEN a.e ELSE b.e)

\* floor(a), ceil(a) and round(a) as doubles that are integers
DFloor(a) ==
    LET Whole0(q) == IF a.s < 0 /\ BShl(q, 0 - a.e) # a.m THEN BAdd(q, <<1>>) ELSE q
    IN  IF a.e >= 0 THEN a ELSE DNorm_(a.s, Whole0(BShr(a.m, 0 - a.e)), 0)

DCeil(a) == DNeg(DFloor_(DNeg(a)))

DRound(a) == IF a.e >= 0 THEN a ELSE DNorm_(a.s, BRound_(a.m, 0 - a.e), 0)

Rank(a) == CASE a.k = "ninf" -> 0 [] a.k = "fin" -> 1 [] a.k = "pinf" -> 2 [] OTHER -> 3

\* a short float that is exactly n / Scale: a multiple of 1/8
Exact(a) == "m" \notin DOMAIN a /\ a.v % 125 = 0

Magnitude(n) == IF n < 0 THEN 0 - n ELSE n

\* a < b on floats (every comparison with nan is false); floats with
\* different v are ordered like their v
FLt(a, b) ==
    /\ a.k # "nan"
    /\ b.k # "nan"
    /\ \/ Rank(a) < Rank(b)
       \/ /\ a.k = "fin"
          /\ b.k = "fin"
          /\ IF a.v # b.v THEN a.v < b.v
             ELSE IF "m" \notin DOMAIN a /\ "m" \notin DOMAIN b THEN FALSE
             ELSE DCmp_(ToD_(a), ToD_(b)) < 0

FGt(a, b) == FLt_(b, a)

FGe(a, b) == a.k # "nan" /\ b.k # "nan" /\ ~FLt_(a, b)

FNeg(a) ==
    CASE a.k = "fin" ->
            IF "m" \in DOMAIN a THEN [a EXCEPT !.v = 0 - @, !.s = 0 - @] ELSE Fin(0 - a.v)
      [] a.k = "pinf" -> NInf
      [] a.k = "ninf" -> PInf
      [] OTHER -> a

FAbs(a) == IF a.k = "ninf" \/ (a.k = "fin" /\ a.v < 0) \/ (a.k = "fin" /\ "m" \in DOMAIN a /\ a.s < 0)
           THEN FNeg(a) ELSE a

\* float.__add__
FAdd(a, b) ==
    CASE a.k = "nan" \/ b.k = "nan" -> NaN
      [] a.k = "fin" /\ b.k = "fin" ->
            IF Exact(a) /\ Exact(b) /\ Magnitude(a.v) < Pow(2, 29) /\ Magnitude(b.v) < Pow(2, 29)
                THEN Fin(a.v + b.v)
            ELSE FromD_(DAdd_(ToD_(a), ToD_(b)))
      [] a.k = "fin" -> b
      [] b.k = "fin" -> a
      [] a.k = b.k -> a
      [] OTHER -> NaN

\* float.__sub__
FSub(a, b) == FAdd_(a, FNeg(b))

\* the sign of a float that is not nan: -1, 0 or 1
FSign(x) ==
    CASE x.k = "pinf" -> 1 [] x.k = "ninf" -> 0 - 1
      [] x.v > 0 -> 1 [] x.v < 0 -> 0 - 1
      [] "m" \in DOMAIN x -> x.s [] OTHER -> 0

\* float.__mul__
FMul(a, b) ==
    LET \* both exact and small: the product in units of 1/64
        Small(x, y) == y = 0 \/ Magnitude(x) <= (MaxInt \div 125) \div Magnitude(y)
        Prod(p) == IF (p * 125) % 8 = 0 THEN Fin((p * 125) \div 8)
                   ELSE FromD_(DMul_(ToD_(a), ToD_(b)))
    IN  IF a.k = "nan" \/ b.k = "nan" THEN NaN
        ELSE IF a.k = "fin" /\ b.k = "fin"
            THEN IF Exact(a) /\ Exact(b) /\ Small(a.v \div 125, b.v \div 125)
                    THEN Prod((a.v \div 125) * (b.v \div 125))
                 ELSE FromD_(DMul_(ToD_(a), ToD_(b)))
        ELSE IF FSign(a) * FSign(b) = 0 THEN NaN
        ELSE IF FSign(a) * FSign(b) > 0 THEN PInf ELSE NInf

\* float.__truediv__ for b # 0
FDiv(a, b) ==
    LET Quot(n, d) == IF d > 0 THEN n \div d ELSE (0 - n) \div (0 - d)
    IN  IF a.k = "nan" \/ b.k = "nan" THEN NaN
        ELSE IF a.k = "fin" /\ b.k = "fin"
            THEN IF /\ Exact(a) /\ Exact(b) /\ Magnitude(a.v) <= MaxInt \div Scale
                    /\ (a.v * Scale) % Magnitude(b.v) = 0
                    THEN Fin(Quot(a.v * Scale, b.v))
                 ELSE FromD_(DDiv_(ToD_(a), ToD_(b)))
        ELSE IF a.k = "fin" THEN Fin(0)
        ELSE IF b.k = "fin" THEN (IF FSign(a) * FSign(b) > 0 THEN PInf ELSE NInf)
        ELSE NaN

\* float * int and float / int for a positive n
FScale(a, n) == FMul_(a, Whole(n))

FDivInt(a, n) == FDiv_(a, Whole(n))

\* int(x) == x for a finite float
IsIntegral(a) ==
    /\ a.k = "fin"
    /\ IF "m" \in DOMAIN a THEN a.e >= 0 \/ BShl(BShr(a.m, 0 - a.e), 0 - a.e) = a.m
       ELSE a.v % Scale = 0

\* math.floor(x), math.ceil(x) and round(x) of a finite float, as floats
FFloor(a) ==
    IF "m" \in DOMAIN a \/ Magnitude(a.v) > MaxInt - Scale THEN FromD_(DFloor_(ToD_(a)))
    ELSE Fin((a.v \div Scale) * Scale)

FCeil(a) == FNeg(FFloor_(FNeg(a)))

FRound(a) ==
    IF "m" \in DOMAIN a \/ Magnitude(a.v) > MaxInt - Scale THEN FromD_(DRound_(ToD_(a)))
    ELSE Fin(RoundDiv(a.v, Scale) * Scale)

\* int(|d|): the integer part of the magnitude of a double, a big natural
DTrunc(d) == IF d.e >= 0 THEN BShl(d.m, d.e) ELSE BShr(d.m, 0 - d.e)

\* b**e as a big natural, for a small natural b
RECURSIVE BPow(_, _)
BPow(b, e) ==
    LET Square(h) == IF e % 2 = 0 THEN BMul_(h, h) ELSE BMulSmall(BMul_(h, h), b)
    IN  IF e = 0 THEN <<1>> ELSE Square(BPow(b, e \div 2))

\* m**i for a big natural m
RECURSIVE BPower(_, _)
BPower(m, i) ==
    LET Square(h) == IF i % 2 = 0 THEN BMul_(h, h) ELSE BMul_(BMul_(h, h), m)
    IN  IF i = 0 THEN <<1>> ELSE Square(BPower(m, i \div 2))

\* what a method of float or int gives that is no float: an exception, the
\* pair of float.__divmod__, a complex number, or a float that this model
\* does not compute (a power with a fractional or a high exponent)
Thrown(exc, why) == [k |-> "raise", v |-> 0, exc |-> exc, why |-> why]

Pair(q, r) == [k |-> "tuple", v |-> 0, q |-> q, r |-> r]

Complex == [k |-> "complex", v |-> 0]

NotComputed == [k |-> "real", v |-> 0]

\* float_divmod of CPython for finite a and b # 0: the pair (a // b, a % b)
DDivMod(a, b) ==
    LET One == DNorm_(1, <<1>>, 0)
        Half == DNorm_(1, <<1>>, 0 - 1)
        Nearer(div, fl) == IF DCmp_(DSub_(div, fl), Half) > 0 THEN DAdd_(fl, One) ELSE fl
        Floored(div) == IF div.m = <<>> THEN div ELSE Nearer(div, DFloor_(div))
        Adjusted(mod, div) ==
            IF mod.m # <<>> /\ (b.s < 0) # (mod.s < 0)
                THEN [q |-> Floored(DSub_(div, One)), r |-> DAdd_(mod, b)]
            ELSE [q |-> Floored(div), r |-> mod]
        Mod(mod) == Adjusted(mod, DDiv_(DSub_(a, mod), b))
    IN  Mod(DFmod_(a, b))

\* float.__divmod__ for b # 0
FDivMod(a, b) ==
    LET Floor(n, d) == IF d > 0 THEN n \div d ELSE (0 - n) \div (0 - d)
        Short(q) == Pair(Whole(q), Fin(a.v - q * b.v))
        Slow(p) == Pair(FromD_(p.q), FromD_(p.r))
    IN  IF a.k = "nan" \/ b.k = "nan" \/ a.k # "fin" THEN Pair(NaN, NaN)
        ELSE IF b.k # "fin"
            THEN IF FSign(a) * FSign(b) < 0 THEN Pair(Whole(0 - 1), b) ELSE Pair(Fin(0), a)
        ELSE IF /\ Exact(a) /\ Exact(b)
                /\ Magnitude(a.v) < Pow(2, 29) /\ Magnitude(b.v) < Pow(2, 29)
                /\ Magnitude(a.v) \div Magnitude(b.v) < MaxInt \div Scale
            THEN Short(Floor(a.v, b.v))
        ELSE Slow(DDivMod_(ToD_(a), ToD_(b)))

\* the most bits of a power that is computed
MaxPowerBits == 4096

\* float_pow of CPython: the special cases of its own, and of the C library's
\* pow the results that are exact
FPower(a, b) ==
    LET \* the exponent as an integer, for an integral b of small magnitude
        n == IF "m" \in DOMAIN b THEN 0 ELSE Magnitude(b.v) \div Scale
        odd == b.k = "fin" /\ "m" \notin DOMAIN b /\ b.v % (2 * Scale) = Scale
        RECURSIVE Zeros(_)
        Zeros(l) == IF l % 2 = 0 THEN 1 + Zeros(l \div 2) ELSE 0
        RECURSIVE Odd(_, _)
        \* the mantissa without its trailing zero bits
        Odd(m, e) == IF m[1] = 0 THEN Odd(Tail(m), e + 14)
                     ELSE [m |-> BShr(m, Zeros(m[1])), e |-> e + Zeros(m[1])]
        Range(r) == IF r.k = "fin" THEN r ELSE Thrown("OverflowError", "Numerical result out of range")
        Far(l) == l >= 1 /\ n >= (1100 \div l) + 1
        \* the power p * 2^x for an odd p: its double when it is one, an
        \* error from 2^1024 on; otherwise the C library's pow decides
        \* between the doubles next to it
        Positive(s, p, x) ==
            IF BBits(p) + x > 1024 THEN Range(PInf)
            ELSE IF BBits(p) <= 53 /\ x >= MinExp THEN FromD_(DNorm_(s, p, x))
            ELSE NotComputed
        \* the power 2^x / p for an odd p
        Negative(s, p, x) ==
            IF x - BBits(p) >= 1024 THEN Range(PInf)
            ELSE IF p = <<1>> /\ x >= MinExp THEN FromD_(DNorm_(s, p, x))
            ELSE NotComputed
        Raised(s, o) ==
            IF o.m = <<1>> /\ o.e = 0 THEN Fin(s * Scale)
            \* |a| >= 2^l with l >= 1, or |a| <= 2^l with l <= -1, and the
            \* power is beyond 2^1100 or below 2^-1100
            ELSE IF Far(BBits(o.m) - 1 + o.e) THEN (IF b.v > 0 THEN Range(PInf) ELSE Fin(0))
            ELSE IF Far(0 - (BBits(o.m) + o.e)) THEN (IF b.v > 0 THEN Fin(0) ELSE Range(PInf))
            ELSE IF n > MaxPowerBits \/ BBits(o.m) * n > MaxPowerBits THEN NotComputed
            ELSE IF b.v > 0 THEN Positive(s, BPower_(o.m, n), o.e * n)
            ELSE Negative(s, BPower_(o.m, n), 0 - (o.e * n))
        Finite(d) == Raised(IF d.s < 0 /\ odd THEN 0 - 1 ELSE 1, Odd(d.m, d.e))
    IN  IF b = Fin(0) THEN Whole(1)
        ELSE IF a.k = "nan" THEN NaN
        ELSE IF b.k = "nan" THEN (IF a = Whole(1) THEN Whole(1) ELSE NaN)
        ELSE IF b.k # "fin"
            THEN IF FAbs(a) = Whole(1) THEN Whole(1)
                 ELSE IF (b.k = "pinf") = FGt_(FAbs(a), Whole(1)) THEN PInf
                 ELSE Fin(0)
        ELSE IF a.k # "fin"
            THEN IF FSign(b) > 0 THEN (IF odd THEN a ELSE PInf) ELSE Fin(0)
        ELSE IF a = Fin(0)
            THEN IF FSign(b) < 0
                    THEN Thrown("ZeroDivisionError", "0.0 cannot be raised to a negative power")
                 ELSE Fin(0)
        ELSE IF ~IsIntegral(b)
            THEN IF a = Whole(1) THEN Whole(1)
                 \* a negative a gives a complex number, or OverflowError
                 ELSE IF /\ FSign(a) < 0 /\ a.v # 0 /\ FLt_(Whole(0 - 2), a)
                         /\ FLt_(Whole(0 - 2), b) /\ FLt_(b, Whole(1000))
                    THEN Complex
                 ELSE NotComputed
        ELSE IF "m" \in DOMAIN b THEN NotComputed
        ELSE Finite(ToD_(a))

(***************************************************************************)
(* Python ints                                                             *)
(***************************************************************************)

\* an int by its sign (0 for zero) and its magnitude
Z(s, m) == IF m = <<>> THEN [s |-> 0, m |-> <<>>] ELSE [s |-> s, m |-> m]

\* the int that an integral float is
IntOf(a) == Z(FSign(a), DTrunc(ToD_(FAbs(a))))

\* the int s * m as a value: the double of this value if there is one
IntF(s, m) ==
    LET Wide == [k |-> "fin", v |-> s * MaxInt, s |-> s, m |-> m, e |-> 0]
        Form(d) == IF d.e + 53 <= 1024 /\ DTrunc(d) = m THEN FromD_(d) ELSE Wide
    IN  IF m = <<>> THEN Fin(0) ELSE Form(DNorm_(s, m, 0))

\* an int that is no double
IsWide(a) == a.k = "fin" /\ "m" \in DOMAIN a /\ BBits(a.m) > 53

\* float(x) of an int or a float x: the nearest double, ties to even
AsFloat(a) ==
    LET Range(r) == IF r.k = "fin" THEN r
                    ELSE Thrown("OverflowError", "int too large to convert to float")
    IN  IF IsWide(a) THEN Range(FromD_(DNorm_(a.s, a.m, 0))) ELSE a

\* x + y on ints
ZAdd(x, y) ==
    IF x.s = y.s \/ x.m = <<>> \/ y.m = <<>> THEN Z(IF x.m = <<>> THEN y.s ELSE x.s, BAdd(x.m, y.m))
    ELSE IF BCmp(x.m, y.m) >= 0 THEN Z(x.s, BSub(x.m, y.m))
    ELSE Z(y.s, BSub(y.m, x.m))

\* divmod(x, y) on ints for y # 0: the quotient is floored and the
\* remainder has the sign of y
ZDivMod(x, y) ==
    LET Floor(d) ==
            IF x.s * y.s >= 0 THEN [q |-> Z(1, d.q), r |-> Z(y.s, d.r)]
            ELSE IF d.r = <<>> THEN [q |-> Z(0 - 1, d.q), r |-> Z(0, <<>>)]
            ELSE [q |-> Z(0 - 1, BAdd(d.q, <<1>>)), r |-> Z(y.s, BSub(y.m, d.r))]
    IN  Floor(BDivMod_(x.m, y.m))

\* the method of int of this name, applied to the ints a and b (a float
\* operand makes these methods return NotImplemented, see do_math); the
\* unary methods __floor__, __ceil__ and __round__ take a only.  The result
\* is an int, or the float of int.__truediv__ and of a power with a negative
\* exponent, or what Thrown, Pair and NotComputed stand for.
IntFunc(funcname, a, b) ==
    LET ZeroDivision == Thrown("ZeroDivisionError", "division by zero")
        Of(z) == IntF_(z.s, z.m)
        Range(r) == IF r.k = "fin" THEN r
                    ELSE Thrown("OverflowError", "integer division result too large for a float")
        TrueDiv(x, y) == Range(FromD_(DQuot_(x.s * y.s, x.m, y.m, 0)))
        FloatPow(x, y) == IF x.k = "raise" THEN x ELSE IF y.k = "raise" THEN y ELSE FPower_(x, y)
        Sign(x, y) == IF x.s < 0 /\ y.m[1] % 2 = 1 THEN 0 - 1 ELSE 1
        Power(x, y) ==
            IF y.s < 0 THEN FloatPow(AsFloat_(a), AsFloat_(b))
            ELSE IF y.m = <<>> THEN Whole(1)
            ELSE IF x.m = <<>> THEN Fin(0)
            ELSE IF x.m = <<1>> THEN Whole(Sign(x, y))
            ELSE IF \/ ~BFits(y.m)
                    \/ BInt(y.m) > MaxPowerBits
                    \/ (BBits(x.m) - 1) * BInt(y.m) >= MaxPowerBits
                THEN NotComputed
            ELSE IntF_(Sign(x, y), BPower_(x.m, BInt(y.m)))
        Both(p) == Pair(Of(p.q), Of(p.r))
    IN  CASE funcname = "__add__" -> Of(ZAdd_(IntOf_(a), IntOf_(b)))
          [] funcname = "__sub__" -> Of(ZAdd_(IntOf_(a), IntOf_(FNeg(b))))
          [] funcname = "__mul__" -> IntF_(FSign(a) * FSign(b), BMul_(IntOf_(a).m, IntOf_(b).m))
          [] funcname = "__truediv__" ->
                IF b = Fin(0) THEN ZeroDivision ELSE TrueDiv(IntOf_(a), IntOf_(b))
          [] funcname = "__floordiv__" ->
                IF b = Fin(0) THEN ZeroDivision ELSE Of(ZDivMod_(IntOf_(a), IntOf_(b)).q)
          [] funcname = "__mod__" ->
                IF b = Fin(0) THEN ZeroDivision ELSE Of(ZDivMod_(IntOf_(a), IntOf_(b)).r)
          [] funcname = "__divmod__" ->
                IF b = Fin(0) THEN ZeroDivision ELSE Both(ZDivMod_(IntOf_(a), IntOf_(b)))
          [] funcname = "__pow__" -> Power(IntOf_(a), IntOf_(b))
          [] funcname \in {"__floor__", "__ceil__", "__round__"} -> a
          \* __div__ is no method of float or int in Python 3
          [] OTHER -> Thrown("AttributeError", "type object has no attribute %r")

(***************************************************************************)
(* Number: parsing (stringables.py, _NumberMixin._regex and __new__)       *)
(***************************************************************************)

\* _prefixes_binary and _prefixes_metric as (prefix, base, exponent)
prefixes_binary ==
    << [p |-> <<"T", "i">>, base |-> 1024, exp |-> 4],
       [p |-> <<"G", "i">>, base |-> 1024, exp |-> 3],
       [p |-> <<"M", "i">>, base |-> 1024, exp |-> 2],
       [p |-> <<"K", "i">>, base |-> 1024, exp |-> 1] >>

prefixes_metric ==
    << [p |-> <<"T">>, base |-> 1000, exp |-> 4],
       [p |-> <<"G">>, base |-> 1000, exp |-> 3],
       [p |-> <<"M">>, base |-> 1000, exp |-> 2],
       [p |-> <<"k">>, base |-> 1000, exp |-> 1] >>

\* chain.from_iterable(zip(_prefixes_binary, _prefixes_metric)): Ti T Gi G Mi M Ki k
prefixes_zipped ==
    [i \in 1..8 |-> IF i % 2 = 1 THEN prefixes_binary[(i + 1) \div 2]
                    ELSE prefixes_metric[i \div 2]]

\* the size of a prefix, 1024**n or 1000**n, as a float
PrefixSizes ==
    [base \in {1000, 1024} |-> [exp \in 1..4 |-> FromD_(DNorm_(1, BPow_(base, exp), 0))]]

\* the size of a prefix entry
PrefixSize(entry) == PrefixSizes[entry.base][entry.exp]

\* index after the longest run of digits of s that starts at i
RECURSIVE DigitEnd(_, _)
DigitEnd(s, i) == IF i <= Len(s) /\ IsDigit(s[i]) THEN DigitEnd(s, i + 1) ELSE i

\* the value of a digit string
RECURSIVE DigitsValue(_)
DigitsValue(ds) ==
    IF ds = <<>> THEN 0
    ELSE 10 * DigitsValue(SubSeq(ds, 1, Len(ds) - 1)) + DigitVal[ds[Len(ds)]]

\* the value of a digit string of any length, four digits at a time
RECURSIVE BDigitsValue(_)
BDigitsValue(ds) ==
    LET Joined(n) ==
            BAdd(BMulSmall(BDigitsValue(SubSeq(ds, 1, Len(ds) - n)), Pow(10, n)),
                 BNat(DigitsValue(SubSeq(ds, Len(ds) - n + 1, Len(ds)))))
    IN  IF ds = <<>> THEN <<>> ELSE Joined(IF Len(ds) < 4 THEN Len(ds) ELSE 4)

\* float("<int>.<frac>"): the double nearest to the decimal
DecimalValue(int, frac) ==
    IF Len(int) <= 6 /\ Len(frac) <= 3
        THEN Fin(DigitsValue(int) * Scale + DigitsValue(frac) * Pow(10, 3 - Len(frac)))
    ELSE FromD_(DQuot_(1, BDigitsValue_(int \o frac), BPow_(10, Len(frac)), 0))

\* group 1 of the regex, [-+]?(?:\d+\.\d+|\d+|\.\d+|inf): the float it denotes
\* and the index after it, or ok = FALSE
MatchNumber(s) ==
    LET signed == s # <<>> /\ s[1] \in {"+", "-"}
        neg == signed /\ s[1] = "-"
        i == IF signed THEN 2 ELSE 1
        j == DigitEnd(s, i)
        f == IF j <= Len(s) /\ s[j] = "." THEN DigitEnd(s, j + 1) ELSE j
        mag ==
            IF j > i /\ f > j + 1
                THEN [ok |-> TRUE, next |-> f,
                      val |-> DecimalValue_(SubSeq(s, i, j - 1), SubSeq(s, j + 1, f - 1))]
            ELSE IF j > i
                THEN [ok |-> TRUE, next |-> j, val |-> DecimalValue_(SubSeq(s, i, j - 1), <<>>)]
            ELSE IF f > j + 1
                THEN [ok |-> TRUE, next |-> f, val |-> DecimalValue_(<<>>, SubSeq(s, j + 1, f - 1))]
            ELSE IF LowerStr(Take(Drop(s, i - 1), 3)) = <<"i", "n", "f">>
                THEN [ok |-> TRUE, next |-> i + 3, val |-> PInf]
            ELSE [ok |-> FALSE, next |-> i, val |-> NaN]
    IN  [mag EXCEPT !.val = IF neg THEN FNeg(@) ELSE @]

\* group 2 of the regex matched without re.IGNORECASE
RECURSIVE MatchPrefix_case_sensitive(_, _)
MatchPrefix_case_sensitive(rest, i) ==
    IF i > Len(prefixes_zipped) THEN 0
    ELSE IF StartsWith(rest, prefixes_zipped[i].p) THEN i
    ELSE MatchPrefix_case_sensitive(rest, i + 1)

\* group 2 of the regex: the first alternative of Ti|T|Gi|G|Mi|M|Ki|k| that
\* the text starts with, ignoring case; 0 for the empty alternative
RECURSIVE MatchPrefix(_, _)
MatchPrefix(rest, i) ==
    IF i > Len(prefixes_zipped) THEN 0
    ELSE IF StartsWith(LowerStr(rest), LowerStr(prefixes_zipped[i].p)) THEN i
    ELSE MatchPrefix(rest, i + 1)

\* group 3 of the regex, [^\s0-9]*?$ ($ also matches before one final newline)
UnitText(rest) ==
    IF rest # <<>> /\ rest[Len(rest)] = "\n" THEN SubSeq(rest, 1, Len(rest) - 1) ELSE rest

IsUnitText(u) == \A i \in 1..Len(u) : ~IsDigit(u[i]) /\ u[i] \notin Whitespace

\* cls._regex.match(string): ok, and the three groups
RegexMatch(string) ==
    LET Groups(num, rest, prfx, unit, pi) ==
            IF num.ok /\ IsUnitText(unit)
                THEN [ok |-> TRUE, val |-> num.val, pi |-> pi, prfx |-> prfx, unit |-> unit]
            ELSE [ok |-> FALSE, val |-> NaN, pi |-> 0, prfx |-> <<>>, unit |-> <<>>]
        Group3(num, rest, prfx, pi) == Groups(num, rest, prfx, UnitText(Drop(rest, Len(prfx))), pi)
        Group2(num, rest, pi) ==
            Group3(num, rest, IF pi = 0 THEN <<>> ELSE Take(rest, Len(prefixes_zipped[pi].p)), pi)
        Space(num, after) ==
            Group2(num, IF after # <<>> /\ after[1] = " " THEN Tail(after) ELSE after,
                   MatchPrefix(IF after # <<>> /\ after[1] = " " THEN Tail(after) ELSE after, 1))
        Group1(num) == Space(num, Drop(string, num.next - 1))
    IN  Group1(MatchNumber_(string))

(***************************************************************************)
(* Number: construction and arithmetic (stringables.py, _NumberMixin)      *)
(*                                                                         *)
(* A Number is [cls, val, args]: the class Int or Float, the float value   *)
(* and the remembered constructor arguments self._args.  A constructor     *)
(* input is tagged: a Number ("num"), a string ("str") or a plain Python   *)
(* number ("raw", with isint telling int from float).  A call returns      *)
(* [ok |-> TRUE, num] or [ok |-> FALSE, exc, why, arg], the exception.     *)
(***************************************************************************)

NoUnit == <<>>

\* the keyword defaults of __new__
DefaultKw ==
    [unit |-> NoUnit, convert_to |-> NoUnit, prefix |-> "None", hide_unit |-> "None",
     min |-> NoneF, max |-> NoneF, precise |-> FALSE]

Raise(exc, why, arg) == [ok |-> FALSE, exc |-> exc, why |-> why, arg |-> arg]

Made(num) == [ok |-> TRUE, num |-> num]

AsNum(n) == [t |-> "num", n |-> n]

AsStr(s) == [t |-> "str", s |-> s]

AsRaw(r, isint) == [t |-> "raw", r |-> r, isint |-> isint]

\* an object that is neither a number nor a string and that has no
\* arithmetic, no order and no float(): object(), None
AsObj(n) == [t |-> "obj", o |-> n]

\* bytes, or a bytearray (mutable)
AsBytes(s, mutable) == [t |-> "bytes", s |-> s, mutable |-> mutable]

\* a list, or a tuple (immutable)
AsSeq(items, mutable) == [t |-> "seq", items |-> items, mutable |-> mutable]

\* value * 8 for bytes and lists: eight copies
Times8(s) == s \o s \o s \o s \o s \o s \o s \o s

\* the float behind a Number or a plain number
NumericVal(v) == IF v.t = "num" THEN v.n.val ELSE v.r

\* converters: B -> b multiplies by 8, b -> B divides by 8
HasConverter(unit, convert_to) ==
    \/ unit = <<"B">> /\ convert_to = <<"b">>
    \/ unit = <<"b">> /\ convert_to = <<"B">>

\* the operator that the converter applies to its argument: B * 8 or b / 8
ConvertFunc(unit, convert_to) == IF unit = <<"B">> THEN "__mul__" ELSE "__truediv__"

\* the converter applied to a plain number, an int or a float
Convert(value, unit, convert_to) ==
    IF value.isint THEN IntFunc_(ConvertFunc(unit, convert_to), value.r, Whole(8))
    ELSE IF unit = <<"B">> THEN FScale_(value.r, 8)
    ELSE FDivInt_(value.r, 8)

\* a plain Python int or float as the operand of an operator
Plain(r, isint) == [cls |-> IF isint THEN "int" ELSE "float", val |-> r]

RECURSIVE do_math(_, _, _)

\* lines 347-371 of __new__: the bounds, the constructor of the parent type
\* (float(value) for a Float), the prefix check, _args.  `value` is a plain
\* number or a Number.
NumberFinish(cls, value, unit, prefix, hide_unit, kw) ==
    LET val == NumericVal(value)
        New(v) ==
            IF v.k = "raise" THEN Raise(v.exc, v.why, val)
            ELSE IF prefix \notin {"binary", "metric"}
                THEN Raise("ValueError", "prefix must be 'binary' or 'metric', not %r", prefix)
            ELSE Made([cls |-> cls, val |-> v,
                       args |-> [unit |-> unit, prefix |-> prefix, hide_unit |-> hide_unit,
                                 min |-> kw.min, max |-> kw.max, precise |-> kw.precise]])
    IN  IF kw.min.k # "none" /\ FLt_(val, kw.min)
            THEN Raise("ValueError", "Too small (minimum is %s)", kw.min)
        ELSE IF kw.max.k # "none" /\ FGt_(val, kw.max)
            THEN Raise("ValueError", "Too big (maximum is %s)", kw.max)
        ELSE IF cls = "Int" /\ val.k \in {"pinf", "ninf"}
            THEN Raise("OverflowError", "cannot convert float infinity to integer", val)
        ELSE IF cls = "Int" /\ val.k = "nan"
            THEN Raise("ValueError", "cannot convert float NaN to integer", val)
        ELSE New(IF cls = "Float" THEN AsFloat_(val) ELSE val)

\* a Number that an operator gave, or its exception, as a constructor value
Operated(r) == IF r.ok THEN [ok |-> TRUE, value |-> AsNum(r.num)] ELSE r

\* lines 341-345 of __new__: round(value) for Int.  A Number rounds itself
\* with its own __round__, a plain float with float.__round__, and a plain
\* int is its own round().
NumberRound(cls, value, unit, prefix, hide_unit, kw) ==
    LET Rounded ==
            IF cls # "Int" THEN [ok |-> TRUE, value |-> value]
            ELSE IF value.t = "num" THEN Operated(do_math_(value.n, "__round__", value.n))
            ELSE IF value.isint THEN [ok |-> TRUE, value |-> value]
            ELSE IF value.r.k \in {"pinf", "ninf"}
                THEN Raise("OverflowError", "cannot convert float infinity to integer", value.r)
            ELSE IF value.r.k = "nan"
                THEN Raise("ValueError", "cannot convert float NaN to integer", value.r)
            ELSE [ok |-> TRUE, value |-> AsRaw(FRound_(value.r), TRUE)]
        Checked(r) ==
            IF r.ok THEN NumberFinish_(cls, r.value, unit, prefix, hide_unit, kw) ELSE r
    IN  Checked(Rounded)

\* lines 324-339 of __new__: scale the number to a different unit.  A Number
\* is multiplied or divided by its own operator.
NumberConvert(cls, value, unit, prefix, hide_unit, kw) ==
    LET converts == kw.convert_to # NoUnit /\ unit # kw.convert_to
        \* an int * 8 is an int, an int / 8 a float
        Plainly(x) ==
            IF x.k = "raise" THEN Raise(x.exc, x.why, value.r)
            ELSE [ok |-> TRUE, value |-> AsRaw(x, value.isint /\ unit = <<"B">>)]
        Converted ==
            IF ~converts \/ unit = NoUnit THEN [ok |-> TRUE, value |-> value]
            ELSE IF ~HasConverter(unit, kw.convert_to)
                THEN Raise("ValueError", "Cannot convert %s to %s", unit)
            ELSE IF value.t = "num"
                THEN Operated(do_math_(value.n, ConvertFunc(unit, kw.convert_to),
                                      Plain(Whole(8), TRUE)))
            ELSE Plainly(Convert_(value, unit, kw.convert_to))
        Rounded(r) ==
            IF r.ok THEN NumberRound_(cls, r.value, IF converts THEN kw.convert_to ELSE unit,
                                     prefix, hide_unit, kw)
            ELSE r
    IN  Rounded(Converted)

\* the characters that float() strips from bytes
ByteSpace == {" ", "\t", "\n", "\r", "\f", ""}

\* the nearest double of sign * sig * 10^e10, sig the decimal digits without
\* leading zeros
string_to_double(sign, sig, e10) ==
    IF sig = <<>> THEN Fin(0)
    ELSE IF e10 + Len(sig) > 400 THEN (IF sign > 0 THEN PInf ELSE NInf)
    ELSE IF e10 + Len(sig) < 0 - 400 THEN Fin(0)
    ELSE FromD_(IF e10 >= 0 THEN DNorm_(sign, BMul_(BDigitsValue_(sig), BPow_(10, e10)), 0)
                ELSE DQuot_(sign, BDigitsValue_(sig), BPow_(10, 0 - e10), 0))

\* float(value) for bytes and bytearrays (PyFloat_FromString): underscores
\* between digits are dropped, the whitespace at both ends is stripped, and the
\* rest is all of [-+]?(inf|infinity|nan) or of
\* [-+]?(\d+(\.\d*)?|\.\d+)([eE][-+]?\d+)?; the value is the nearest double,
\* an infinity when that is out of range
float_of_bytes(value) ==
    LET Invalid == Raise("ValueError", "could not convert string to float: %r", value)
        Kept(c) == c # "_"
        \* the exponent's digits without leading zeros, as a number
        Exponent(esign, edigits) ==
            esign * (IF Len(edigits) > 6 THEN 1000000 ELSE DigitsValue(edigits))
        \* digits: those of the integer and the fraction part; frac: the number
        \* of the latter; es..ee - 1: the digits of the exponent
        Number(sign, body, digits, frac, exp, esign, es, ee) ==
            IF digits = <<>> \/ (exp /\ ee = es) \/ ee # Len(body) + 1 THEN Invalid
            ELSE [ok |-> TRUE,
                  val |-> string_to_double_(sign, LStrip(digits, {"0"}),
                                (IF exp THEN Exponent(esign, LStrip(SubSeq(body, es, ee - 1), {"0"}))
                                 ELSE 0) - frac)]
        ExpDigits(sign, body, digits, frac, exp, esign, es) ==
            Number(sign, body, digits, frac, exp, esign, es,
                   IF exp THEN DigitEnd(body, es) ELSE es)
        HasExp(body, f) == f <= Len(body) /\ body[f] \in {"e", "E"}
        ExpSigned(body, f) == f + 1 <= Len(body) /\ body[f + 1] \in {"+", "-"}
        \* f: the end of the integer and fraction part
        Fraction(sign, body, digits, frac, f) ==
            ExpDigits(sign, body, digits, frac, HasExp(body, f),
                      IF HasExp(body, f) /\ ExpSigned(body, f) /\ body[f + 1] = "-"
                          THEN 0 - 1 ELSE 1,
                      IF ~HasExp(body, f) THEN f
                      ELSE IF ExpSigned(body, f) THEN f + 2 ELSE f + 1)
        \* j: the end of the integer part; f > j: a dot at j, a fraction to f
        Dot(sign, body, j, f) ==
            Fraction(sign, body,
                     SubSeq(body, 1, j - 1) \o (IF f > j THEN SubSeq(body, j + 1, f - 1) ELSE <<>>),
                     IF f > j THEN f - j - 1 ELSE 0, f)
        Integer(sign, body, j) ==
            Dot(sign, body, j,
                IF j <= Len(body) /\ body[j] = "." THEN DigitEnd(body, j + 1) ELSE j)
        Body(sign, body, lower) ==
            IF lower \in {<<"i", "n", "f">>, <<"i", "n", "f", "i", "n", "i", "t", "y">>}
                THEN [ok |-> TRUE, val |-> IF sign > 0 THEN PInf ELSE NInf]
            ELSE IF lower = <<"n", "a", "n">> THEN [ok |-> TRUE, val |-> NaN]
            ELSE Integer(sign, body, DigitEnd(body, 1))
        Stripped(t, signed) ==
            Body(IF signed /\ t[1] = "-" THEN 0 - 1 ELSE 1,
                 IF signed THEN Tail(t) ELSE t,
                 LowerStr(IF signed THEN Tail(t) ELSE t))
        Sign(t) == Stripped(t, t # <<>> /\ t[1] \in {"+", "-"})
        Underscored ==
            \A i \in DOMAIN value.s :
                value.s[i] = "_" => /\ 1 < i /\ i < Len(value.s)
                                    /\ IsDigit(value.s[i - 1]) /\ IsDigit(value.s[i + 1])
    IN  IF ~Underscored THEN Invalid
        ELSE Sign(RStrip(LStrip(SelectSeq(value.s, Kept), ByteSpace), ByteSpace))

\* lines 324-371 of __new__ for a value that is no number and no string.
\* The converter B -> b repeats bytes and lists and fails on other objects,
\* b -> B fails; round() and the comparisons with min and max raise TypeError;
\* the parent type float takes bytes, and its TypeError for what it does not
\* take becomes ValueError, whose message is formatted with the value.
NumberObject(cls, value, prefix, hide_unit, kw) ==
    LET converts == kw.convert_to # NoUnit /\ kw.unit # kw.convert_to
        unit == IF converts THEN kw.convert_to ELSE kw.unit
        New(f) ==
            IF ~f.ok THEN f
            ELSE IF prefix \notin {"binary", "metric"}
                THEN Raise("ValueError", "prefix must be 'binary' or 'metric', not %r", prefix)
            ELSE Made([cls |-> cls, val |-> f.val,
                       args |-> [unit |-> unit, prefix |-> prefix, hide_unit |-> hide_unit,
                                 min |-> kw.min, max |-> kw.max, precise |-> kw.precise]])
        Finished(v) ==
            IF cls = "Int"
                THEN Raise("TypeError", "type %s doesn't define __round__ method", v)
            ELSE IF kw.min.k # "none"
                THEN Raise("TypeError", "'<' not supported between instances", v)
            ELSE IF kw.max.k # "none"
                THEN Raise("TypeError", "'>' not supported between instances", v)
            ELSE IF v.t = "bytes" THEN New(float_of_bytes_(v))
            \* 'Not a number: %r' % value takes a tuple for the arguments
            ELSE IF v.t = "seq" /\ ~v.mutable /\ Len(v.items) = 0
                THEN Raise("TypeError", "not enough arguments for format string", v)
            ELSE IF v.t = "seq" /\ ~v.mutable /\ Len(v.items) > 1
                THEN Raise("TypeError", "not all arguments converted during string formatting", v)
            ELSE Raise("ValueError", "Not a number: %r", v)
    IN  IF converts /\ kw.unit # NoUnit
            THEN IF ~HasConverter(kw.unit, kw.convert_to)
                    THEN Raise("ValueError", "Cannot convert %s to %s", kw.unit)
                 ELSE IF kw.unit = <<"b">> \/ value.t = "obj"
                    THEN Raise("TypeError", "unsupported operand type(s)", value)
                 ELSE IF value.t = "bytes" THEN Finished([value EXCEPT !.s = Times8(@)])
                 ELSE Finished([value EXCEPT !.items = Times8(@)])
        ELSE Finished(value)

\* _NumberMixin.__new__(cls, value, **kw)
NumberNew(cls, value, kw) ==
    LET same == value.t = "num" /\ value.n.cls = cls
        \* isinstance(value, cls): use value's arguments as defaults
        unit0 == IF same /\ kw.unit = NoUnit THEN value.n.args.unit ELSE kw.unit
        prefix0 == IF same /\ kw.prefix = "None" THEN value.n.args.prefix ELSE kw.prefix
        hide0 == IF same /\ kw.hide_unit = "None" THEN value.n.args.hide_unit ELSE kw.hide_unit
        \* fill in hardcoded defaults
        prefix1 == IF prefix0 = "None" THEN "metric" ELSE prefix0
        hide1 == IF hide0 = "None" THEN "False" ELSE hide0
        \* lines 302-322: the number, the unit and the prefix of a string
        Parsed(m) ==
            IF ~m.ok THEN Raise("ValueError", "Not a number: %r", value.s)
            ELSE [ok |-> TRUE,
                  value |-> AsRaw(IF m.pi = 0 THEN m.val
                                  ELSE FMul_(m.val, PrefixSize_(prefixes_zipped[m.pi])), FALSE),
                  unit |-> IF m.unit # <<>> THEN m.unit ELSE unit0,
                  prefix |-> IF Len(m.prfx) = 2 THEN "binary"
                             ELSE IF Len(m.prfx) = 1 THEN "metric" ELSE prefix1]
        \* value = float(value)
        Floated(v) ==
            IF v.k = "raise" THEN Raise(v.exc, v.why, value.n.val)
            ELSE [ok |-> TRUE, value |-> AsRaw(v, FALSE), unit |-> unit0, prefix |-> prefix1]
        Filled ==
            IF value.t = "str" THEN Parsed(RegexMatch_(value.s))
            ELSE IF same THEN Floated(AsFloat_(value.n.val))
            \* a Number of the other class stays the object it is
            ELSE [ok |-> TRUE, value |-> value, unit |-> unit0, prefix |-> prefix1]
        Converted(r) ==
            IF r.ok THEN NumberConvert_(cls, r.value, r.unit, r.prefix, hide1, kw) ELSE r
    IN  IF value.t \in {"obj", "bytes", "seq"} THEN NumberObject_(cls, value, prefix1, hide1, kw)
        ELSE Converted(Filled)

\* Float(value) and Int(value) with keyword arguments kw
NewFloat(value, kw) == NumberNew_("Float", value, kw)

NewInt(value, kw) == NumberNew_("Int", value, kw)

\* **self._args
ArgsKw(args) ==
    [unit |-> args.unit, convert_to |-> NoUnit, prefix |-> args.prefix,
     hide_unit |-> args.hide_unit, min |-> args.min, max |-> args.max,
     precise |-> args.precise]

\* FloatFunc looking up the wrong method: every operator subtracts
FloatFunc_sub_only(funcname, a, b) == FSub_(a, b)

\* the method of float of this name, applied to the floats a and b (an int
\* operand is converted first, see do_math); the unary methods __floor__,
\* __ceil__ and __round__ take a only.  The result is a float, or what
\* Thrown, Pair, Complex and NotComputed stand for.
FloatFunc(funcname, a, b) ==
    LET ZeroDivision == Thrown("ZeroDivisionError", "division by zero")
        Unary(r) ==
            IF a.k = "fin" THEN r
            ELSE IF a.k = "nan" THEN Thrown("ValueError", "cannot convert float NaN to integer")
            ELSE Thrown("OverflowError", "cannot convert float infinity to integer")
    IN  CASE funcname = "__add__" -> FAdd_(a, b)
          [] funcname = "__sub__" -> FSub_(a, b)
          [] funcname = "__mul__" -> FMul_(a, b)
          [] funcname = "__truediv__" -> IF b = Fin(0) THEN ZeroDivision ELSE FDiv_(a, b)
          [] funcname = "__floordiv__" -> IF b = Fin(0) THEN ZeroDivision ELSE FDivMod_(a, b).q
          [] funcname = "__mod__" -> IF b = Fin(0) THEN ZeroDivision ELSE FDivMod_(a, b).r
          [] funcname = "__divmod__" -> IF b = Fin(0) THEN ZeroDivision ELSE FDivMod_(a, b)
          [] funcname = "__pow__" -> FPower_(a, b)
          [] funcname = "__floor__" -> Unary(FFloor_(a))
          [] funcname = "__ceil__" -> Unary(FCeil_(a))
          [] funcname = "__round__" -> Unary(FRound_(a))
          \* __div__ is no method of float or int in Python 3
          [] OTHER -> Thrown("AttributeError", "type object has no attribute %r")

\* lines 433-443 of _do_math: the class of the result and the new instance.
\* `result` is tagged like a constructor input.
Rewrap(self, result) ==
    LET val == IF result.t = "num" THEN result.n.val ELSE result.r
        isint == IF result.t = "num" THEN result.n.cls = "Int" ELSE result.isint
    IN  IF ~isint /\ val.k = "ninf"
            \* int(result) of -inf
            THEN Raise("OverflowError", "cannot convert float infinity to integer", val)
        ELSE NumberNew_(IF isint \/ (FLt_(val, PInf) /\ IsIntegral(val)) THEN "Int" ELSE "Float",
                       result, ArgsKw(self.args))

\* the operators of _NumberMixin whose name is a method of float and of int
\* (__div__ is none in Python 3)
ParentMethods ==
    {"__add__", "__sub__", "__mul__", "__truediv__", "__floordiv__", "__mod__",
     "__divmod__", "__pow__", "__floor__", "__ceil__", "__round__"}

\* _NumberMixin._do_math(self, funcname, other): `other` is a Number or a
\* plain number (Plain); a unary method (__floor__, __ceil__, __round__
\* without ndigits) has no `other`: the argument is ignored
do_math(self, funcname, other) ==
    LET Result(r) == IF r.ok THEN Rewrap_(self, r.result) ELSE r
        Flipped(r) == IF r.ok THEN [ok |-> TRUE, result |-> AsNum(r.num)] ELSE r
        unary == funcname \in {"__floor__", "__ceil__", "__round__"}
        \* int.__add__(int, float) is NotImplemented: the method is taken from
        \* `other` and called with `self` as its only argument
        flip == ~unary /\ self.cls = "Int" /\ other.cls \in {"Float", "float"}
        \* int methods return an int, except int.__truediv__ and a power
        \* with a negative exponent; float.__floor__ and the like return an int
        isint == \/ unary
                 \/ /\ self.cls = "Int"
                    /\ other.cls \in {"Int", "int"}
                    /\ funcname # "__truediv__"
                    /\ ~(funcname = "__pow__" /\ FSign(other.val) < 0)
        \* the method of int takes two ints
        ints == self.cls = "Int" /\ (unary \/ other.cls \in {"Int", "int"})
        \* the method of float converts an int operand: float(x)
        Floats(a, b) ==
            IF a.k = "raise" THEN a ELSE IF b.k = "raise" THEN b ELSE FloatFunc_(funcname, a, b)
        \* what the method gave: an exception, a result that `result <
        \* _INFINITY` cannot compare, or a number
        Value(x) ==
            IF x.k = "raise" THEN Raise(x.exc, x.why, IF unary THEN self.val ELSE other.val)
            ELSE IF x.k \in {"tuple", "complex"}
                THEN Raise("TypeError", "'<' not supported between instances", self.val)
            ELSE IF x.k = "real"
                THEN Raise("NotComputed", "a power outside the computed range", other.val)
            ELSE [ok |-> TRUE, result |-> AsRaw(x, isint)]
    IN  Result(IF FGe_(self.val, PInf)
                   THEN [ok |-> TRUE, result |-> AsRaw(PInf, FALSE)]
               ELSE IF funcname \notin ParentMethods
                   \* getattr(self._parent_type, funcname)
                   THEN Raise("AttributeError", "type object has no attribute %r", self.val)
               ELSE IF flip /\ other.cls = "Float"
                   THEN Flipped(do_math(other, funcname, self))
               ELSE IF ints
                   THEN Value(IntFunc_(funcname, self.val, IF unary THEN self.val ELSE other.val))
               ELSE Value(Floats(AsFloat_(IF flip THEN other.val ELSE self.val),
                                 AsFloat_(IF flip \/ unary THEN self.val ELSE other.val))))

(***************************************************************************)
(* Number: the string form (stringables.py, _pretty_float and string)      *)
(***************************************************************************)

\* the decimal digits of a natural number: '%d' % n
RECURSIVE Digits(_)
Digits(n) ==
    LET digit == <<"0", "1", "2", "3", "4", "5", "6", "7", "8", "9">>
    IN  IF n < 10 THEN <<digit[n + 1]>> ELSE Digits(n \div 10) \o <<digit[(n % 10) + 1]>>

\* the decimal digits of a big natural: those of x \div 10^n, then the n
\* digits of x % 10^n, for an n of about half the number of digits
RECURSIVE BDigits(_)
BDigits(x) ==
    LET Padded(ds, n) == [i \in 1..(n - Len(ds)) |-> "0"] \o ds
        Joined(d, n) == BDigits(d.q) \o Padded(BDigits(d.r), n)
        Halves(n) == Joined(BDivMod_(x, BPow_(10, n)), n)
    IN  IF Len(x) <= 2 THEN Digits(BInt(x))
        ELSE Halves((BBits(x) * 3) \div 20)

\* the character U+221E (infinity), written as one ASCII character that
\* occurs in no number
InfinitySign == "~"

\* _pretty_float always printing '%.2f' with the trailing zeros stripped
pretty_float_two_decimals(n) ==
    LET sign == IF FSign(n) < 0 THEN <<"-">> ELSE <<>>
        F2(h) == sign \o BDigits_(BDivSmall(h, 100)) \o <<".">>
                      \o Digits(BModSmall(h, 100) \div 10) \o Digits(BModSmall(h, 100) % 10)
    IN  [ok |-> TRUE, s |-> RStrip(F2(DTimes_(ToD_(FAbs(n)), 100)), {"0"})]

\* _pretty_float(n): the string, or the exception of int(n_abs) for nan.
\* round(n_abs, 2), round(n_abs, 1) and the '%' formats round the double
\* itself, ties to even.
pretty_float(n) ==
    LET sign == IF FSign(n) < 0 THEN <<"-">> ELSE <<>>
        \* '%.0f', '%.2f' and '%.1f' of n by its rounded absolute value in
        \* units, hundredths and tenths
        F0(u) == sign \o BDigits_(u)
        F2(h) == sign \o BDigits_(BDivSmall(h, 100)) \o <<".">>
                      \o Digits(BModSmall(h, 100) \div 10) \o Digits(BModSmall(h, 100) % 10)
        F1(t) == sign \o BDigits_(BDivSmall(t, 10)) \o <<".">> \o Digits(BModSmall(t, 10))
        Pretty(d, r2) ==
            IF r2 = BMulSmall(DTrunc(d), 100) THEN F0(DTimes_(d, 1))
            ELSE IF BCmp(r2, BNat(1000)) < 0 THEN RStrip(F2(r2), {"0"})
            ELSE IF BCmp(DTimes_(d, 10), BNat(1000)) < 0 THEN RStrip(F1(DTimes_(d, 10)), {"0"})
            ELSE F0(DTimes_(d, 1))
        Abs(d) == Pretty(d, DTimes_(d, 100))
    IN  IF n.k \in {"pinf", "ninf"} THEN [ok |-> TRUE, s |-> sign \o <<InfinitySign>>]
        ELSE IF n = Fin(0) THEN [ok |-> TRUE, s |-> <<"0">>]
        ELSE IF n.k = "nan" THEN Raise("ValueError", "cannot convert float NaN to integer", n)
        ELSE [ok |-> TRUE, s |-> Abs(ToD_(FAbs(n)))]

\* n zeros
Zeros(n) == [i \in 1..n |-> "0"]

\* float.__repr__ of a finite float: the shortest decimal that float() reads
\* back as the same double, in fixed notation for 1e-4 <= |x| < 1e16 and in
\* exponent notation otherwise
FloatRepr(a) ==
    LET sign == IF FSign(a) < 0 THEN <<"-">> ELSE <<>>
        Up(n) == IF n > 0 THEN n ELSE 0
        \* d / 10^j as a fraction of big naturals
        Num(d, j) == BMul_(BShl(d.m, Up(d.e)), BPow_(10, Up(0 - j)))
        Den(d, j) == BShl(BPow_(10, Up(j)), Up(0 - d.e))
        \* floor(log10(d)), from the number of bits of d
        Log2(d) == BBits(d.m) + d.e - 1
        Guess(b) == IF b >= 0 THEN (b * 30103) \div 100000
                    ELSE 0 - (((0 - b) * 30103 + 99999) \div 100000)
        Log10(d, k) == IF BCmp(Num(d, k + 1), Den(d, k + 1)) >= 0 THEN k + 1 ELSE k
        \* the nearest decimal of p significant digits to d, as an integer
        \* of units 10^(k - p + 1)
        Nearest(d, k, p) == BRoundDiv_(Num(d, k - p + 1), Den(d, k - p + 1))
        Back(n, j) == DQuot_(1, BMul_(n, BPow_(10, Up(j))), BPow_(10, Up(0 - j)), 0)
        Reads(d, k, p) == Back(Nearest(d, k, p), k - p + 1) = Dbl(1, d.m, d.e)
        Shortest(d, k, lo, hi) ==
            LET RECURSIVE Search(_, _)
                Search(l, h) ==
                    IF l = h THEN l
                    ELSE IF Reads(d, k, (l + h) \div 2) THEN Search(l, (l + h) \div 2)
                    ELSE Search(((l + h) \div 2) + 1, h)
            IN  Search(lo, hi)
        Exponent(x) == <<"e">> \o (IF x < 0 THEN <<"-">> ELSE <<"+">>)
                       \o (IF Magnitude(x) < 10 THEN <<"0">> ELSE <<>>) \o Digits(Magnitude(x))
        Layout(ds, decpt) ==
            IF decpt - 1 < 0 - 4 \/ decpt - 1 >= 16
                THEN <<ds[1]>> \o (IF Len(ds) > 1 THEN <<".">> \o Tail(ds) ELSE <<>>)
                     \o Exponent(decpt - 1)
            ELSE IF decpt <= 0 THEN <<"0", ".">> \o Zeros(0 - decpt) \o ds
            ELSE IF decpt >= Len(ds) THEN ds \o Zeros(decpt - Len(ds)) \o <<".", "0">>
            ELSE SubSeq(ds, 1, decpt) \o <<".">> \o SubSeq(ds, decpt + 1, Len(ds))
        Written(all, k, p) == Layout(RStrip(all, {"0"}), (k + 1 - p) + Len(all))
        Digs(d, k, p) == Written(BDigits_(Nearest(d, k, p)), k, p)
        Long2(d, k) == Digs(d, k, Shortest(d, k, 1, 17))
        Long(d) == Long2(d, Log10(d, Guess(Log2(d))))
        Short(n) == Digits(n \div Scale) \o <<".">>
                    \o (IF n % Scale = 0 THEN <<"0">>
                        ELSE RStrip(Digits((n % Scale) \div 100) \o Digits(((n % Scale) \div 10) % 10)
                                    \o Digits(n % 10), {"0"}))
    IN  sign \o (IF "m" \in DOMAIN a THEN Long(Dbl(1, a.m, a.e)) ELSE Short(Magnitude(a.v)))

\* _NumberMixin.string(self, unit, precise): the string, or the exception
number_string(self, unit, precise) ==
    LET v == self.val
        get_unit == IF unit THEN self.args.unit ELSE <<>>
        prefixes == IF self.args.prefix = "binary" THEN prefixes_binary ELSE prefixes_metric
        Reached(abs) == {i \in 1..Len(prefixes) : FGe_(abs, PrefixSize_(prefixes[i]))}
        Suffixed(r, p) == IF r.ok THEN [ok |-> TRUE, s |-> r.s \o p \o get_unit] ELSE r
        \* _pretty_float(float(self) / size)
        Divided(f, size) ==
            IF f.k = "raise" THEN Raise(f.exc, f.why, v) ELSE pretty_float_(FDiv_(f, size))
        \* the first entry of the table with absolute >= size, if there is one
        Stringify(reached) ==
            IF reached = {} THEN Suffixed(pretty_float_(v), <<>>)
            ELSE LET First(entry) == Suffixed(Divided(AsFloat_(v), PrefixSize_(entry)), entry.p)
                 IN  First(prefixes[CHOOSE i \in reached : \A j \in reached : i <= j])
        \* str(self._parent_type(self))
        Repr == IF self.cls = "Int"
                    THEN (IF FSign(v) < 0 THEN <<"-">> ELSE <<>>) \o BDigits_(DTrunc(ToD_(v)))
                ELSE FloatRepr_(v)
    IN  IF v = Fin(0) THEN [ok |-> TRUE, s |-> <<"0">>]
        ELSE IF v.k \in {"pinf", "ninf"} THEN pretty_float_(v)
        ELSE IF precise
            THEN [ok |-> TRUE,
                  s |-> IF v.k = "nan" THEN <<"n", "a", "n">> \o get_unit
                        ELSE RStrip(RStrip(Repr, {"0"}), {"."}) \o get_unit]
        ELSE Stringify(Reached(FAbs(v)))

\* _NumberMixin.__str__: self._str = partial(self.string, unit=not hide_unit, precise=precise)
str(self) == number_string_(self, self.args.hide_unit # "True", self.args.precise)

(***************************************************************************)
(* Values and the combined settings (objects.cfg)                          *)
(*                                                                         *)
(* A Python value is tagged: "num" (a Number), "str" (a string), "list"    *)
(* (a list of strings), "text" (the str() of the value in `of`, kept       *)
(* unevaluated) or "none".                                                 *)
(***************************************************************************)

AsList(items) == [t |-> "list", items |-> items]

AsText(v) == [t |-> "text", of |-> v]

NoValue == [t |-> "none"]

\* isinstance(v, (float, int)): a Number or a plain Python number
IsNumeric(v) == v.t \in {"num", "raw"}

\* isinstance(v, (tuple, list))
IsSequence(v) == v.t = "list"

EvalSuffix == <<":", "e", "v", "a", "l">>

TuiLogHeight == <<"t", "u", "i", ".", "l", "o", "g", ".", "h", "e", "i", "g", "h", "t">>

TuiPoll == <<"t", "u", "i", ".", "p", "o", "l", "l">>

SrvUrl == <<"s", "r", "v", ".", "u", "r", "l">>

ColumnsFiles == <<"c", "o", "l", "u", "m", "n", "s", ".", "f", "i", "l", "e", "s">>

SrvLimitRate == <<"s", "r", "v", ".", "l", "i", "m", "i", "t", ".", "r", "a", "t", "e", ".">>

Up == <<"u", "p">>

Down == <<"d", "o", "w", "n">>

SrvLimitRateUp == SrvLimitRate \o Up

SrvLimitRateDown == SrvLimitRate \o Down

LocalNames == {TuiLogHeight, TuiPoll, SrvUrl, ColumnsFiles}

RemoteNames == {SrvLimitRateUp, SrvLimitRateDown}

\* name in objects.cfg
InCfg(name) == name \in LocalNames \cup RemoteNames

\* objects.cfg.is_remote(name)
is_remote(name) == name \in RemoteNames

ColSize == <<"s", "i", "z", "e">>

ColName == <<"n", "a", "m", "e">>

ColMarked == <<"m", "a", "r", "k", "e", "d">>

ColPriority == <<"p", "r", "i", "o", "r", "i", "t", "y">>

ColProgress == <<"p", "r", "o", "g", "r", "e", "s", "s">>

ColDownloaded == <<"d", "o", "w", "n", "l", "o", "a", "d", "e", "d">>

DEFAULT_FLIST_COLUMNS == <<ColMarked, ColPriority, ColProgress, ColDownloaded, ColSize, ColName>>

\* the type of each setting: its class and constructor keywords
SettingType(name) ==
    CASE name = TuiLogHeight -> [cls |-> "Int", kw |-> [DefaultKw EXCEPT !.min = Whole(1)]]
      [] name = TuiPoll -> [cls |-> "Float", kw |-> [DefaultKw EXCEPT !.min = Fin(Scale \div 10)]]
      [] name = SrvUrl -> [cls |-> "String", kw |-> DefaultKw]
      [] name = ColumnsFiles -> [cls |-> "Tuple", kw |-> DefaultKw]
      [] OTHER -> [cls |-> "Float", kw |-> DefaultKw]

\* a plain Python number n as a value of the setting's type
NumberOf(name, r) ==
    AsNum(NumberNew_(SettingType(name).cls, AsRaw(r, FALSE), SettingType(name).kw).num)

\* the default of each local setting
Default(name) ==
    CASE name = TuiLogHeight -> NumberOf_(name, Whole(10))
      [] name = TuiPoll -> NumberOf_(name, Whole(5))
      [] name = SrvUrl ->
            AsStr(<<"l", "o", "c", "a", "l", "h", "o", "s", "t", ":", "9", "0", "9", "1">>)
      [] OTHER -> AsList(DEFAULT_FLIST_COLUMNS)

\* the options of columns.files: the columns of file lists
ColumnOptions == {DEFAULT_FLIST_COLUMNS[i] : i \in DOMAIN DEFAULT_FLIST_COLUMNS}

\* The setting's type applied to the value handed to the write path:
\* the new value, or the ValueError of the type's constructor.
Validate(name, value) ==
    LET ty == SettingType(name)
        Checked(r) == IF r.ok THEN [ok |-> TRUE, val |-> AsNum(r.num)] ELSE r
    IN  IF ty.cls \in {"Int", "Float"}
            THEN IF value.t \in {"num", "str"}
                    THEN Checked(NumberNew_(ty.cls, value, ty.kw))
                 ELSE Raise("ValueError", "Not a number: %r", value)
        ELSE IF ty.cls = "String"
            THEN [ok |-> TRUE, val |-> IF value.t = "str" THEN value ELSE AsText(value)]
        ELSE IF value.t = "list" /\ \A i \in 1..Len(value.items) : value.items[i] \in ColumnOptions
            THEN [ok |-> TRUE, val |-> value]
        ELSE Raise("ValueError", "Invalid option%s: %s", value)

\* Number.copy(min=..., max=...): the same number with other bounds
NumberCopy(n, min, max) == [n EXCEPT !.args.min = min, !.args.max = max]

(***************************************************************************)
(* The `set` command: pure steps (config.py, SetCmdbase)                   *)
(***************************************************************************)

\* _parse_name looking up NAME as given, `:eval` included
parse_name_keeps_suffix(name) ==
    IF InCfg(name) THEN [ok |-> TRUE, name |-> name]
    ELSE Raise("ValueError", "Unknown setting: %s", name)

\* SetCmdbase._parse_name
parse_name(name) ==
    LET bare == IF EndsWith(name, EvalSuffix) THEN Take(name, Len(name) - 5) ELSE name
    IN  IF InCfg(bare) THEN [ok |-> TRUE, name |-> bare]
        ELSE Raise("ValueError", "Unknown setting: %s", bare)

\* a byte that starts no UTF-8 sequence, as one element of a bytes value
BadByte == "0xff"

\* bytes.decode('utf-8'): the text, or UnicodeDecodeError (a ValueError) at the
\* first byte that is not UTF-8
decode(bytes) ==
    IF \E i \in DOMAIN bytes : bytes[i] = BadByte
        THEN Raise("UnicodeDecodeError",
                   "'utf-8' codec can't decode byte 0xff in position %d: invalid start byte",
                   (CHOOSE i \in DOMAIN bytes :
                        bytes[i] = BadByte /\ \A j \in 1..(i - 1) : bytes[j] # BadByte) - 1)
    ELSE [ok |-> TRUE, s |-> bytes]

\* _eval_cmd going by the exit status instead of stderr
eval_cmd_by_returncode(proc) ==
    LET stdout == decode(proc.stdout)
        stderr == decode(proc.stderr)
    IN  IF ~stdout.ok THEN stdout
        ELSE IF ~stderr.ok THEN stderr
        ELSE IF proc.returncode # 0 THEN Raise("ValueError", "%s", StripNewlines(stderr.s))
        ELSE [ok |-> TRUE, stdout |-> StripNewlines(stdout.s)]

\* SetCmdbase._eval_cmd, given what the shell command printed and returned:
\* stdout is decoded first, then stderr
eval_cmd(proc) ==
    LET stdout == decode(proc.stdout)
        stderr == decode(proc.stderr)
    IN  IF ~stdout.ok THEN stdout
        ELSE IF ~stderr.ok THEN stderr
        ELSE IF StripNewlines(stderr.s) # <<>> THEN Raise("ValueError", "%s", StripNewlines(stderr.s))
        ELSE [ok |-> TRUE, stdout |-> StripNewlines(stdout.s)]

\* str.split(','), items stripped, empty items dropped
RECURSIVE SplitComma(_, _)
SplitComma(s, cur) ==
    IF s = <<>> THEN (IF Strip(cur) = <<>> THEN <<>> ELSE <<Strip(cur)>>)
    ELSE IF Head(s) = ","
        THEN (IF Strip(cur) = <<>> THEN <<>> ELSE <<Strip(cur)>>) \o SplitComma(Tail(s), <<>>)
    ELSE SplitComma(Tail(s), Append(cur, Head(s)))

\* utils.listify_args
RECURSIVE listify_args(_)
listify_args(tokens) ==
    IF tokens = <<>> THEN <<>>
    ELSE SplitComma(tokens[1], <<>>) \o listify_args(Tail(tokens))

\* SetCmdbase._parse_value once a shell command, if any, has run:
\* `tokens` is VALUE, or [stdout] for a command
parse_value(tokens, listify) ==
    IF listify THEN AsList(listify_args(tokens)) ELSE AsStr(JoinSpace(tokens))

\* to_num of _get_operator
to_num(string) ==
    LET Made_or_raise(r) == IF r.ok THEN r ELSE Raise("ValueError", "%s: %r", string)
    IN  Made_or_raise(NewFloat_(AsStr(string), DefaultKw))

\* SetCmdbase._get_operator: the operator ("None" if there is none) and the value
get_operator(value) ==
    LET Parsed(stripped, num) ==
            IF num.ok
                THEN [ok |-> TRUE, value |-> AsNum(num.num),
                      op |-> IF stripped[1] = "+" THEN "__add__" ELSE "__sub__"]
            ELSE num
        Stripped(stripped) ==
            IF Len(stripped) >= 3 /\ Take(stripped, 2) \in {<<"+", "=">>, <<"-", "=">>}
                THEN Parsed(stripped, to_num_(Drop(stripped, 2)))
            ELSE [ok |-> TRUE, op |-> "None", value |-> value]
    IN  IF value.t = "str" THEN Stripped(Strip(value.s))
        ELSE [ok |-> TRUE, op |-> "None", value |-> value]

\* _adjust_value without lines 437-438: infinity stays the left operand
adjust_current_keeps_infinity(current) == current

\* lines 437-438 of _adjust_value: the left operand of the adjustment
adjust_current(current) ==
    IF FGe_(NumericVal(current), PInf)
        THEN AsNum(NewFloat_(AsRaw(Whole(0), TRUE), DefaultKw).num)
    ELSE current

\* SetCmdbase._adjust_value with the operators of _get_operator (__add__,
\* __sub__): a Number adjusts through its _do_math; a plain number adds or
\* subtracts as int or float do, which gives a plain number
adjust_value(current, op, value) ==
    LET Adjusted(r) == IF r.ok THEN [ok |-> TRUE, value |-> AsNum(r.num)] ELSE r
        Left(c) ==
            IF c.t = "num" THEN Adjusted(do_math_(c.n, op, value.n))
            ELSE [ok |-> TRUE,
                  value |-> AsRaw(FloatFunc_(op, c.r, value.n.val),
                                  c.isint /\ value.n.cls = "Int")]
    IN  IF IsNumeric(current) THEN Left(adjust_current_(current))
        ELSE [ok |-> TRUE, value |-> value]

\* lines 376-378 of SetCmdbase.run: the result without the setting's bounds
unbound_result(current, op, value) ==
    do_math_(NumberCopy(current.n, NInf, PInf), op, value.n)

(***************************************************************************)
(* Messages and exceptions                                                 *)
(*                                                                         *)
(* A CmdError message keeps its format and the objects formatted into it:  *)
(* `value` is the object handed to _stringify, `err` the exception.        *)
(***************************************************************************)

NoErr == [ok |-> FALSE, exc |-> "", why |-> "", arg |-> <<>>]

NoMsg == [fmt |-> "", name |-> <<>>, value |-> NoValue, err |-> NoErr]

Msg(fmt, name, value, err) == [fmt |-> fmt, name |-> name, value |-> value, err |-> err]

\* the ClientError of a failed request
ClientError == Raise("ClientError", "Connection failed", <<>>)

\* SetCmdbase.run, lines 354-379, once the shell command (if any) has run:
\* `tokens` is VALUE or [stdout], `cur` is objects.cfg[name].
\* The result says how the step ends ("write": go on to objects.cfg.set) and
\* gives the intermediate values.
resolve(name, tokens, cur) ==
    LET Base(literal) ==
            [status |-> "write", literal |-> literal, op |-> "None", delta |-> NoValue,
             value |-> literal, msg |-> NoMsg]
        Op(base, go) == [base EXCEPT !.op = go.op, !.delta = go.value]
        \* lines 374-379: the adjustment raised `adj`
        Unbound(base, adj, unb) ==
            IF ~unb.ok THEN [base EXCEPT !.status = "crash", !.msg = Msg("", name, NoValue, unb)]
            ELSE [base EXCEPT !.status = "fail",
                              !.msg = Msg("%s = %s: %s", name, AsNum(unb.num), adj)]
        \* lines 370-379
        Adjust(base, go, adj) ==
            IF adj.ok THEN [base EXCEPT !.value = adj.value]
            ELSE IF adj.exc # "ValueError"
                THEN [base EXCEPT !.status = "crash", !.msg = Msg("", name, NoValue, adj)]
            ELSE Unbound(base, adj, unbound_result_(cur, go.op, go.value))
        \* lines 363-368
        Operator(base, literal, go) ==
            IF ~go.ok
                THEN [base EXCEPT !.status = "fail",
                                  !.msg = Msg("%s = %s: %s", name, literal, go)]
            ELSE IF go.op = "None" THEN base
            ELSE Adjust(Op(base, go), go, adjust_value_(cur, go.op, go.value))
        Literal(literal) == Operator(Base(literal), literal, get_operator_(literal))
    IN  Literal(parse_value(tokens, IsSequence(cur)))

\* the operator named f applied to the arguments x
Invoke(f, x) ==
    CASE f = "BMul" -> BMul(x[1], x[2])
      [] f = "BDigits" -> BDigits(x[1])
      [] f = "BDigitsValue" -> BDigitsValue(x[1])
      [] f = "BPower" -> BPower(x[1], x[2])
      [] f = "ZDivMod" -> ZDivMod(x[1], x[2])
      [] f = "ZAdd" -> ZAdd(x[1], x[2])
      [] f = "IntF" -> IntF(x[1], x[2])
      [] f = "IntOf" -> IntOf(x[1])
      [] f = "AsFloat" -> AsFloat(x[1])
      [] f = "BRound" -> BRound(x[1], x[2])
      [] f = "BDigit" -> BDigit(x[1], x[2])
      [] f = "BDivMod" -> BDivMod(x[1], x[2])
      [] f = "BRoundDiv" -> BRoundDiv(x[1], x[2])
      [] f = "DNorm" -> DNorm(x[1], x[2], x[3])
      [] f = "DQuot" -> DQuot(x[1], x[2], x[3], x[4])
      [] f = "ToD" -> ToD(x[1])
      [] f = "DTimes" -> DTimes(x[1], x[2])
      [] f = "FromD" -> FromD(x[1])
      [] f = "DCmp" -> DCmp(x[1], x[2])
      [] f = "DAdd" -> DAdd(x[1], x[2])
      [] f = "DSub" -> DSub(x[1], x[2])
      [] f = "DMul" -> DMul(x[1], x[2])
      [] f = "DDiv" -> DDiv(x[1], x[2])
      [] f = "DFmod" -> DFmod(x[1], x[2])
      [] f = "DFloor" -> DFloor(x[1])
      [] f = "DCeil" -> DCeil(x[1])
      [] f = "DRound" -> DRound(x[1])
      [] f = "FLt" -> FLt(x[1], x[2])
      [] f = "FGt" -> FGt(x[1], x[2])
      [] f = "FGe" -> FGe(x[1], x[2])
      [] f = "FAdd" -> FAdd(x[1], x[2])
      [] f = "FSub" -> FSub(x[1], x[2])
      [] f = "FMul" -> FMul(x[1], x[2])
      [] f = "FDiv" -> FDiv(x[1], x[2])
      [] f = "FScale" -> FScale(x[1], x[2])
      [] f = "FDivInt" -> FDivInt(x[1], x[2])
      [] f = "FFloor" -> FFloor(x[1])
      [] f = "FCeil" -> FCeil(x[1])
      [] f = "FRound" -> FRound(x[1])
      [] f = "BPow" -> BPow(x[1], x[2])
      [] f = "DDivMod" -> DDivMod(x[1], x[2])
      [] f = "FDivMod" -> FDivMod(x[1], x[2])
      [] f = "FPower" -> FPower(x[1], x[2])
      [] f = "PrefixSize" -> PrefixSize(x[1])
      [] f = "DecimalValue" -> DecimalValue(x[1], x[2])
      [] f = "MatchNumber" -> MatchNumber(x[1])
      [] f = "RegexMatch" -> RegexMatch(x[1])
      [] f = "Convert" -> Convert(x[1], x[2], x[3])
      [] f = "NumberFinish" -> NumberFinish(x[1], x[2], x[3], x[4], x[5], x[6])
      [] f = "NumberRound" -> NumberRound(x[1], x[2], x[3], x[4], x[5], x[6])
      [] f = "NumberConvert" -> NumberConvert(x[1], x[2], x[3], x[4], x[5], x[6])
      [] f = "NumberNew" -> NumberNew(x[1], x[2], x[3])
      [] f = "NumberObject" -> NumberObject(x[1], x[2], x[3], x[4], x[5])
      [] f = "float_of_bytes" -> float_of_bytes(x[1])
      [] f = "string_to_double" -> string_to_double(x[1], x[2], x[3])
      [] f = "NewFloat" -> NewFloat(x[1], x[2])
      [] f = "NewInt" -> NewInt(x[1], x[2])
      [] f = "FloatFunc" -> FloatFunc(x[1], x[2], x[3])
      [] f = "IntFunc" -> IntFunc(x[1], x[2], x[3])
      [] f = "Rewrap" -> Rewrap(x[1], x[2])
      [] f = "do_math" -> do_math(x[1], x[2], x[3])
      [] f = "pretty_float" -> pretty_float(x[1])
      [] f = "FloatRepr" -> FloatRepr(x[1])
      [] f = "number_string" -> number_string(x[1], x[2], x[3])
      [] f = "str" -> str(x[1])
      [] f = "NumberOf" -> NumberOf(x[1], x[2])
      [] f = "Default" -> Default(x[1])
      [] f = "Validate" -> Validate(x[1], x[2])
      [] f = "to_num" -> to_num(x[1])
      [] f = "get_operator" -> get_operator(x[1])
      [] f = "adjust_current" -> adjust_current(x[1])
      [] f = "adjust_value" -> adjust_value(x[1], x[2], x[3])
      [] f = "unbound_result" -> unbound_result(x[1], x[2], x[3])
      [] f = "resolve" -> resolve(x[1], x[2], x[3])

(***************************************************************************)
(* State                                                                   *)
(***************************************************************************)

VARIABLES
    localcfg,   \* objects.localcfg: local setting name -> value
    cache,      \* objects.remotecfg: remote setting name -> value of the last update()
    server,     \* the daemon: remote setting name -> value
    pc,         \* where the running command is ("idle": none is running)
    cmd,        \* the running command and its arguments
    loc,        \* the local variables of the running command
    result,     \* how the command ended: status and CmdError message
    trace,      \* what the command did outside itself, in order
    ncmds       \* commands run so far

vars == <<localcfg, cache, server, pc, cmd, loc, result, trace, ncmds>>

\* commands of one session
MaxCmds == 1

\* objects.cfg[name]
Cfg(name) == IF name \in LocalNames THEN localcfg[name] ELSE cache[name]

NoCmd == [cmd |-> "none"]

NoLoc == [name |-> <<>>]

NoResult == [status |-> "none", msg |-> NoMsg]

Event(ev, arg) == [ev |-> ev, arg |-> arg]

\* values a session can start with: every local setting at its default or at
\* another value of its type, the daemon's rate limit finite or unlimited
InitLocal ==
    { [n \in LocalNames |->
          CASE n = TuiLogHeight -> NumberOf_(n, Whole(h))
            [] n = TuiPoll -> NumberOf_(n, Fin(p))
            [] OTHER -> Default_(n)] :
      h \in {10, 50}, p \in {5 * Scale, 5 * (Scale \div 2)} }

InitRemote ==
    { [n \in RemoteNames |-> NumberOf_(n, r)] : r \in {Whole(50), PInf} }

Init ==
    /\ localcfg \in InitLocal
    /\ cache \in InitRemote
    /\ server \in InitRemote
    /\ pc = "idle"
    /\ cmd = NoCmd
    /\ loc = NoLoc
    /\ result = NoResult
    /\ trace = <<>>
    /\ ncmds = 0

\* the command ends with CmdError(msg) (status "fail"), with an exception
\* nothing catches ("crash"), or normally ("ok")
Finish(status, msg) ==
    /\ pc' = "done"
    /\ result' = [status |-> status, msg |-> msg]

\* the command returned: the next one can start
Return ==
    /\ pc = "done"
    /\ pc' = "idle"
    /\ cmd' = NoCmd
    /\ loc' = NoLoc
    /\ result' = NoResult
    /\ trace' = <<>>
    /\ ncmds' = ncmds + 1
    /\ UNCHANGED <<localcfg, cache, server>>

(***************************************************************************)
(* The `set` command (config.py, SetCmdbase.run)                           *)
(***************************************************************************)

UnknownName == <<"n", "o", "p", "e">>

SetNames == LocalNames \cup RemoteNames \cup {UnknownName}

\* VALUE arguments: lists of command line tokens
SetValues ==
    { <<>>,
      << <<"7">> >>,
      << <<"a", "b", "c">> >>,
      << ColSize, ColName >>,
      << <<"+", "=", "1", "0", "0", "k", "B">> >>,
      << <<"+", "=", "0", ".", "5">> >>,
      << <<"+", "=", "a", "b", "c">> >>,
      << <<"+", "=", "i", "n", "f">> >>,
      << <<"-", "=", "1">> >>,
      << <<"-", "=", "0", ".", "5">> >>,
      << <<"-", "=", "5", "0">> >>,
      << <<"-", "=", "i", "n", "f">> >> }

\* a shell command for NAME:eval
ShellCmds == { << <<"g", "e", "t", "p", "w">> >> }

\* what a shell command can print and return
ShellResults ==
    [stdout : { <<"7", "\n">>, <<"-", "=", "1">>, <<"a", "b", "c", "\n">>, <<"7", BadByte>> },
     stderr : { <<>>, <<"\n">>, <<"e", "r", "r", "\n">>, <<BadByte, "\n">> },
     returncode : {0, 1}]

\* run() without lines 347-352: no update() for a remote setting
first_step_no_update(name) == "set_resolve"

\* lines 347-352: a remote setting needs objects.cfg.update() first
first_step(name) == IF is_remote(name) THEN "set_update" ELSE "set_resolve"

\* both except clauses of lines 384-387 formatting the name and the value
write_error_always_named(name, value, e) == Msg("%s = %s: %s", name, value, e)

\* lines 384-387: the CmdError for the exception of objects.cfg.set
write_error(name, value, e) ==
    IF e.exc = "ValueError" THEN Msg("%s = %s: %s", name, value, e)
    ELSE Msg("%s", <<>>, NoValue, e)

\* `--sort` and `--columns`: None, or the string given
NoArg == [given |-> FALSE, s |-> <<>>]

Arg(s) == [given |-> TRUE, s |-> s]

ListArgs == {NoArg, Arg(ColName), Arg(ColSize \o <<",">> \o ColName)}

\* the settings whose values order and shape the list of settings
SortSettings == <<"s", "o", "r", "t", ".", "s", "e", "t", "t", "i", "n", "g", "s">>

ColumnsSettings ==
    <<"c", "o", "l", "u", "m", "n", "s", ".", "s", "e", "t", "t", "i", "n", "g", "s">>

\* the value objects.localcfg holds for a setting of the list
Stored(name) == [t |-> "setting", name |-> name]

\* lines 328-329: the argument parsed as a list, or the setting's value
list_arg(arg, name) ==
    IF arg.given THEN parse_value(<<arg.s>>, TRUE) ELSE Stored(name)

\* what get_setting_sorter and get_setting_columns make of their arguments
ListChecks == {"accepted", "sort", "columns"}

\* lines 317-345: NAME and VALUE are given; list the settings or find the setting
SetStart(NAME, VALUE, sort, columns) ==
    LET pn == parse_name(NAME)
    IN  /\ pc = "idle"
        /\ ncmds < MaxCmds
        /\ cmd' = [cmd |-> "set", NAME |-> NAME, VALUE |-> VALUE,
                   sort |-> sort, columns |-> columns]
        /\ trace' = <<>>
        /\ IF NAME = <<>> /\ VALUE = <<>>
              THEN /\ pc' = "set_list"
                   /\ UNCHANGED <<loc, result>>
           ELSE IF ~pn.ok
              THEN /\ Finish("fail", Msg("%s", <<>>, NoValue, pn))
                   /\ UNCHANGED loc
           ELSE /\ pc' = first_step(pn.name)
                /\ loc' = [name |-> pn.name]
                /\ UNCHANGED result
        /\ UNCHANGED <<localcfg, cache, server, ncmds>>

\* lines 318-339: `set` without NAME and VALUE updates and lists the settings.
\* `stored`: objects.localcfg has the settings sort.settings and
\* columns.settings (defaults.py defines neither); `check`: the argument that
\* get_setting_sorter or get_setting_columns refuses with ValueError, if any
\* (a value given on the command line: the value of a setting is one its
\* type accepted).
SetList(connected, stored, check) ==
    LET updated == <<Event(IF connected THEN "update" ELSE "update_failed", NoValue)>>
        Read(arg, name) == IF arg.given THEN <<>> ELSE <<Event("setting", AsStr(name))>>
        sort == list_arg(cmd.sort, SortSettings)
        columns == list_arg(cmd.columns, ColumnsSettings)
        missing == IF ~cmd.sort.given THEN SortSettings ELSE ColumnsSettings
    IN  /\ pc = "set_list"
        /\ check = "sort" => cmd.sort.given
        /\ check = "columns" => cmd.columns.given
        /\ cache' = IF connected THEN server ELSE cache
        /\ IF ~stored /\ ~(cmd.sort.given /\ cmd.columns.given)
              \* objects.localcfg[name] of a name it does not have
              THEN /\ trace' = updated \o <<Event("setting", AsStr(missing))>>
                   /\ Finish("crash", Msg("", missing, NoValue, Raise("KeyError", "%r", missing)))
           ELSE IF check # "accepted"
              \* lines 333-334: the ValueError replaces the error of update()
              THEN /\ trace' = updated \o Read(cmd.sort, SortSettings)
                                       \o Read(cmd.columns, ColumnsSettings)
                   /\ Finish("fail", Msg("%s", <<>>, NoValue,
                                         Raise("ValueError", "%s",
                                               IF check = "sort" THEN sort.items
                                               ELSE columns.items)))
           ELSE /\ trace' = updated \o Read(cmd.sort, SortSettings)
                                    \o Read(cmd.columns, ColumnsSettings)
                                    \o <<Event("list", [sort |-> sort, columns |-> columns])>>
                /\ IF connected THEN Finish("ok", NoMsg)
                   ELSE Finish("fail", Msg("%s", <<>>, NoValue, ClientError))
        /\ UNCHANGED <<localcfg, server, cmd, loc, ncmds>>

\* lines 347-352: await objects.cfg.update() for a remote setting
SetUpdate(connected) ==
    /\ pc = "set_update"
    /\ trace' = Append(trace, Event(IF connected THEN "update" ELSE "update_failed", NoValue))
    /\ IF connected
          THEN /\ cache' = server
               /\ pc' = "set_resolve"
               /\ UNCHANGED result
       ELSE /\ Finish("fail", Msg("%s", <<>>, NoValue, ClientError))
            /\ UNCHANGED cache
    /\ UNCHANGED <<localcfg, server, cmd, loc, ncmds>>

\* lines 354-379: the value from VALUE or from the shell command, the operator
\* and the adjusted value
SetResolve(proc) ==
    LET is_cmd == EndsWith(cmd.NAME, EvalSuffix)
        Called(name, cur, ev) ==
            trace \o <<Event("read", cur)>>
                  \o (IF is_cmd THEN <<Event("shell", proc)>> ELSE <<>>)
        Step(name, cur, r) ==
            /\ loc' = [name |-> name, current |-> cur, literal |-> r.literal,
                       op |-> r.op, delta |-> r.delta, value |-> r.value]
            /\ IF r.status = "write"
                  THEN pc' = "set_write" /\ UNCHANGED result
               ELSE Finish(r.status, r.msg)
        Eval(name, cur, ev) ==
            /\ trace' = Called(name, cur, ev)
            /\ IF is_cmd /\ ~ev.ok
                  THEN /\ Finish("fail", Msg("%s: %s", name, NoValue, ev))
                       /\ loc' = [name |-> name, current |-> cur]
               ELSE Step(name, cur,
                         resolve_(name, IF is_cmd THEN <<ev.stdout>> ELSE cmd.VALUE, cur))
    IN  /\ pc = "set_resolve"
        /\ Eval(loc.name, Cfg(loc.name), eval_cmd(proc))
        /\ UNCHANGED <<localcfg, cache, server, cmd, ncmds>>

\* lines 381-387: await objects.cfg.set(name, value)
SetWrite(connected) ==
    LET Set(name, v) ==
            IF ~v.ok
                \* only ValueError and ClientError are caught
                THEN /\ IF v.exc = "ValueError"
                           THEN Finish("fail", write_error(name, loc.value, v))
                        ELSE Finish("crash", Msg("", name, NoValue, v))
                     /\ UNCHANGED <<localcfg, server>>
            ELSE IF is_remote(name) /\ ~connected
                THEN /\ Finish("fail", write_error(name, loc.value, ClientError))
                     /\ UNCHANGED <<localcfg, server>>
            ELSE /\ Finish("ok", NoMsg)
                 /\ IF is_remote(name)
                       THEN server' = [server EXCEPT ![name] = v.val] /\ UNCHANGED localcfg
                    ELSE localcfg' = [localcfg EXCEPT ![name] = v.val] /\ UNCHANGED server
    IN  /\ pc = "set_write"
        /\ trace' = Append(trace, Event("write", loc.value))
        /\ Set(loc.name, Validate_(loc.name, loc.value))
        /\ UNCHANGED <<cache, cmd, loc, ncmds>>

\* NAME, VALUE, --sort and --columns
SetCommands ==
    ((SetNames \X SetValues) \X {NoArg} \X {NoArg})
        \cup (({n \o EvalSuffix : n \in SetNames} \X ShellCmds) \X {NoArg} \X {NoArg})
        \cup ({<< <<>>, <<>> >>} \X ListArgs \X ListArgs)

NextSet ==
    \/ \E c \in SetCommands : SetStart(c[1][1], c[1][2], c[2], c[3])
    \/ \E connected, stored \in BOOLEAN, check \in ListChecks : SetList(connected, stored, check)
    \/ \E connected \in BOOLEAN : SetUpdate(connected)
    \/ \E proc \in ShellResults : SetResolve(proc)
    \/ \E connected \in BOOLEAN : SetWrite(connected)
    \/ Return

SpecSet == Init /\ [][NextSet]_vars

(***************************************************************************)
(* The `reset` command (config.py, ResetCmdbase.run)                       *)
(***************************************************************************)

\* objects.cfg.reset(name): fine for a local setting, "not implemented" for a
\* remote one, "not found" for an unknown name
cfg_reset(name) ==
    IF name \in LocalNames THEN [ok |-> TRUE]
    ELSE IF is_remote(name) THEN Raise("NotImplementedError", "", name)
    ELSE Raise("KeyError", "", name)

\* self.error(fmt % name)
ErrorEvent(fmt, name) == Event("error", Msg(fmt, name, NoValue, NoErr))

\* lines 262-269: one pass of the loop; st is success, the local settings and
\* what was reset or reported so far
reset_one(name, st) ==
    LET Handle(r) ==
            IF r.ok
                THEN [st EXCEPT !.local[name] = Default_(name),
                                !.trace = Append(@, Event("reset", AsStr(name)))]
            ELSE IF r.exc = "NotImplementedError"
                THEN [st EXCEPT !.success = FALSE,
                                !.trace = Append(@, ErrorEvent("Remote settings cannot be reset: %s", name))]
            ELSE [st EXCEPT !.success = FALSE,
                            !.trace = Append(@, ErrorEvent("Unknown setting: %s", name))]
    IN  Handle(cfg_reset(name))

\* the loop of line 261 leaving at the first name that fails
RECURSIVE reset_loop_until_failure(_, _)
reset_loop_until_failure(names, st) ==
    IF names = <<>> \/ ~st.success THEN st
    ELSE reset_loop_until_failure(Tail(names), reset_one(Head(names), st))

\* lines 261-269: the loop over the names
RECURSIVE reset_loop(_, _)
reset_loop(names, st) ==
    IF names = <<>> THEN st
    ELSE reset_loop(Tail(names), reset_one(Head(names), st))

\* NAME arguments: one to MaxNames tokens, a token naming one setting or two
ResetTokens ==
    {TuiLogHeight, TuiPoll, SrvLimitRateUp, UnknownName, TuiPoll \o <<",">> \o UnknownName}

MaxNames == 3

ResetArgs == UNION { [1..n -> ResetTokens] : n \in 1..MaxNames }

\* lines 259-271: run(NAME) is not a coroutine, it runs in one piece
Reset(NAME) ==
    LET Done(st) ==
            /\ localcfg' = st.local
            /\ trace' = st.trace
            /\ loc' = [name |-> <<>>, before |-> localcfg, success |-> st.success]
            /\ Finish(IF st.success THEN "ok" ELSE "fail", NoMsg)
    IN  /\ pc = "idle"
        /\ ncmds < MaxCmds
        /\ cmd' = [cmd |-> "reset", NAME |-> NAME]
        /\ Done(reset_loop(listify_args(NAME),
                           [success |-> TRUE, local |-> localcfg, trace |-> <<>>]))
        /\ UNCHANGED <<cache, server, ncmds>>

NextReset ==
    \/ \E NAME \in ResetArgs : Reset(NAME)
    \/ Return

SpecReset == Init /\ [][NextReset]_vars

(***************************************************************************)
(* The `ratelimit` command (config.py, RateLimitCmdbase)                   *)
(*                                                                         *)
(* The API (objects.srvapi), make_request, select_torrents and the         *)
(* _show_limits/_set_limits of the interfaces are not part of the sources: *)
(* set_limit_rate_<d>(limit) validates and stores the limit,               *)
(* adjust_limit_rate_<d>(delta) adds the delta to it, both raise           *)
(* ValueError or ClientError; make_request returns a response with a       *)
(* success flag; "global" or no filter selects the global limits.          *)
(***************************************************************************)

\* str.split(',')
RECURSIVE split(_, _)
split(s, cur) ==
    IF s = <<>> THEN <<cur>>
    ELSE IF Head(s) = "," THEN <<cur>> \o split(Tail(s), <<>>)
    ELSE split(Tail(s), Append(cur, Head(s)))

\* lines 523-524: the directions of DIRECTION
directions_of(DIRECTION) ==
    LET Dn(parts) ==
            [i \in DOMAIN parts |-> IF parts[i] = <<"d", "n">> THEN Down ELSE parts[i]]
    IN  Dn(split(LowerStr(DIRECTION), <<>>))

\* lines 536-541: LIMIT without the `=` of `+=` and `-=`, and whether to adjust
limit_of(LIMIT) ==
    LET Stripped(limit) ==
            IF Take(limit, 2) \in {<<"+", "=">>, <<"-", "=">>}
                THEN [adjust |-> TRUE, limit |-> AsStr(<<limit[1]>> \o Drop(limit, 2))]
            ELSE [adjust |-> FALSE, limit |-> AsStr(limit)]
    IN  Stripped(Strip(LIMIT))

\* the new limit of set_limit_rate_<d>(limit) / adjust_limit_rate_<d>(limit)
api_limit(current, limit, adjust) ==
    LET Adjust(delta) == IF delta.ok THEN do_math_(current.n, "__add__", delta.num) ELSE delta
    IN  IF adjust THEN Adjust(NewFloat_(limit, DefaultKw)) ELSE NewFloat_(limit, DefaultKw)

Global == <<"g", "l", "o", "b", "a", "l">>

\* a filter select_torrents accepts and one it rejects
GoodFilter == <<"a", "l", "l">>

BadFilter == <<"s", "i", "z", "e", "<">>

\* _set_limits / _show_limits of the interfaces: which limits are meant
is_global(TORRENT_FILTER) == TORRENT_FILTER = <<>> \/ TORRENT_FILTER = <<Global>>

\* select_torrents(TORRENT_FILTER)
select_torrents(TORRENT_FILTER) ==
    IF \E i \in DOMAIN TORRENT_FILTER : TORRENT_FILTER[i] = BadFilter
        THEN Raise("ValueError", "Invalid filter: %s", BadFilter)
    ELSE [ok |-> TRUE, tfilter |-> TORRENT_FILTER]

\* the argument of an API call: the direction and the limit
Call(d, limit) == [t |-> "call", d |-> d, limit |-> limit]

RateDirections ==
    { Up, Down, Up \o <<",">> \o Down, <<"d", "n", ",">> \o Up, <<"U", "P">>,
      Up \o <<",", "s", "i", "d", "e">> \o <<",">> \o Down }

RateLimits ==
    { <<>>, <<"s", "h", "o", "w">>, <<"1", "k">>, <<"a", "b", "c">>,
      <<" ", "+", "=", "5">>, <<"-", "=", "5">> }

RateFilters == { <<>>, <<Global>>, <<GoodFilter>>, <<BadFilter>> }

\* lines 522-544: the directions, show or set, the limit; select_torrents
\* of lines 553-560 and 586-591 runs before the first request
RateLimitStart(DIRECTION, LIMIT, TORRENT_FILTER, quiet) ==
    LET directions == directions_of(DIRECTION)
        show == LIMIT = <<>> \/ LIMIT = <<"s", "h", "o", "w">>
        Locals(l, tf) ==
            /\ loc' = [name |-> <<>>, directions |-> directions, i |-> 1, show |-> show,
                       global |-> is_global(TORRENT_FILTER), limit |-> l.limit,
                       adjust |-> l.adjust, quiet |-> quiet, success |-> TRUE]
            /\ IF ~is_global(TORRENT_FILTER) /\ ~tf.ok
                  THEN Finish("fail", Msg("%s", <<>>, NoValue, tf))
               ELSE /\ pc' = IF is_global(TORRENT_FILTER)
                                THEN (IF show THEN "rl_show_global" ELSE "rl_set")
                             ELSE (IF show THEN "rl_show_torrents" ELSE "rl_request")
                    /\ UNCHANGED result
    IN  /\ pc = "idle"
        /\ ncmds < MaxCmds
        /\ cmd' = [cmd |-> "ratelimit", DIRECTION |-> DIRECTION, LIMIT |-> LIMIT,
                   TORRENT_FILTER |-> TORRENT_FILTER, quiet |-> quiet]
        /\ trace' = <<>>
        /\ IF \E i \in DOMAIN directions : directions[i] \notin {Up, Down}
              THEN /\ Finish("fail",
                             Msg("Invalid direction: %r", <<>>,
                                 AsStr(directions[CHOOSE i \in DOMAIN directions :
                                           /\ directions[i] \notin {Up, Down}
                                           /\ \A j \in 1..(i - 1) : directions[j] \in {Up, Down}]),
                                 NoErr))
                   /\ loc' = NoLoc
           ELSE Locals(IF show THEN [adjust |-> FALSE, limit |-> NoValue] ELSE limit_of(LIMIT),
                       select_torrents(TORRENT_FILTER))
        /\ UNCHANGED <<localcfg, cache, server, ncmds>>

\* the loop goes on with the next direction, or the command ends with `status`
NextDirection(l, status) ==
    IF l.i < Len(l.directions)
        THEN /\ loc' = [l EXCEPT !.i = @ + 1]
             /\ pc' = IF l.show THEN (IF l.global THEN "rl_show_global" ELSE "rl_show_torrents")
                      ELSE (IF l.global THEN "rl_set" ELSE "rl_request")
             /\ UNCHANGED result
    ELSE /\ loc' = l
         /\ Finish(status, NoMsg)

\* lines 568-578 and 582-583 of _set_global_limits: await set_method(limit)
RateLimitGlobalSet(connected) ==
    LET d == loc.directions[loc.i]
        Set(r) ==
            IF ~r.ok
                THEN /\ IF r.exc = "ValueError"
                           THEN Finish("fail", Msg("%s: %r", <<>>, loc.limit, r))
                        ELSE Finish("crash", Msg("", <<>>, NoValue, r))
                     /\ UNCHANGED <<loc, server>>
            ELSE IF ~connected
                THEN /\ Finish("fail", Msg("%s", <<>>, NoValue, ClientError))
                     /\ UNCHANGED <<loc, server>>
            ELSE /\ server' = [server EXCEPT ![SrvLimitRate \o d] = AsNum(r.num)]
                 /\ IF loc.quiet THEN NextDirection(loc, "ok")
                    ELSE pc' = "rl_get" /\ UNCHANGED <<loc, result>>
    IN  /\ pc = "rl_set"
        /\ trace' = Append(trace, Event(IF loc.adjust THEN "adjust_limit_rate" ELSE "set_limit_rate",
                                        Call(d, loc.limit)))
        /\ Set(api_limit(server[SrvLimitRate \o d], loc.limit, loc.adjust))
        /\ UNCHANGED <<localcfg, cache, cmd, ncmds>>

\* lines 579-583 of _set_global_limits: limit = await get_method(), self.info
RateLimitGlobalGet(connected) ==
    LET d == loc.directions[loc.i]
    IN  /\ pc = "rl_get"
        /\ IF connected
              THEN /\ trace' = trace \o <<Event("get_limit_rate", Call(d, NoValue)),
                                          Event("info", Call(d, server[SrvLimitRate \o d]))>>
                   /\ NextDirection([loc EXCEPT !.limit = server[SrvLimitRate \o d]], "ok")
           ELSE /\ trace' = Append(trace, Event("get_limit_rate", Call(d, NoValue)))
                /\ Finish("fail", Msg("%s", <<>>, NoValue, ClientError))
                /\ UNCHANGED loc
        /\ UNCHANGED <<localcfg, cache, server, cmd, ncmds>>

\* lines 596-604 of _set_individual_limits: one request, success aggregated
RateLimitRequest(success) ==
    LET d == loc.directions[loc.i]
    IN  /\ pc = "rl_request"
        /\ trace' = Append(trace, Event(IF loc.adjust THEN "torrent.adjust_limit_rate"
                                        ELSE "torrent.set_limit_rate", Call(d, loc.limit)))
        /\ NextDirection([loc EXCEPT !.success = @ /\ success],
                         IF loc.success /\ success THEN "ok" ELSE "fail")
        /\ UNCHANGED <<localcfg, cache, server, cmd, ncmds>>

\* lines 546-550, _show_global_limits: nothing catches the ClientError
RateLimitShowGlobal(connected) ==
    LET d == loc.directions[loc.i]
    IN  /\ pc = "rl_show_global"
        /\ IF connected
              THEN /\ trace' = trace \o <<Event("get_limit_rate", Call(d, NoValue)),
                                          Event("output", Call(d, server[SrvLimitRate \o d]))>>
                   /\ NextDirection(loc, "ok")
           ELSE /\ trace' = Append(trace, Event("get_limit_rate", Call(d, NoValue)))
                /\ Finish("crash", Msg("", <<>>, NoValue, ClientError))
                /\ UNCHANGED loc
        /\ UNCHANGED <<localcfg, cache, server, cmd, ncmds>>

\* the most torrents a response holds
MaxTorrents == 2

\* response.torrents: the torrents the filter matched, in the daemon's order;
\* this model keeps a torrent's name, its limits are not looked at
Torrents(n) == [i \in 1..n |-> [name |-> i]]

\* self._output('%s %sload rate limit: %s' % (t['name'], d, ...)), line 565
TorrentOutput(t, d) == Event("output", [t |-> "call", name |-> t.name, d |-> d, limit |-> NoValue])

\* lines 563-566: for t in response.torrents: for d in directions
TorrentOutputs(torrents, directions) ==
    LET nd == Len(directions)
    IN  [k \in 1..(Len(torrents) * nd) |->
            TorrentOutput(torrents[((k - 1) \div nd) + 1], directions[((k - 1) % nd) + 1])]

\* lines 552-566, _show_individual_limits: one request for all directions,
\* then one line per torrent and direction when the request succeeded
RateLimitShowTorrents(success, n) ==
    /\ pc = "rl_show_torrents"
    /\ trace' = trace \o <<Event("torrent.torrents", Call(<<>>, NoValue))>>
                      \o (IF success THEN TorrentOutputs(Torrents(n), loc.directions)
                          ELSE <<>>)
    /\ Finish("ok", NoMsg)
    /\ UNCHANGED <<localcfg, cache, server, cmd, loc, ncmds>>

NextRateLimit ==
    \/ \E DIRECTION \in RateDirections, LIMIT \in RateLimits,
          TORRENT_FILTER \in RateFilters, quiet \in BOOLEAN :
            RateLimitStart(DIRECTION, LIMIT, TORRENT_FILTER, quiet)
    \/ \E connected \in BOOLEAN : RateLimitGlobalSet(connected)
    \/ \E connected \in BOOLEAN : RateLimitGlobalGet(connected)
    \/ \E success \in BOOLEAN : RateLimitRequest(success)
    \/ \E connected \in BOOLEAN : RateLimitShowGlobal(connected)
    \/ \E success \in BOOLEAN, n \in 0..MaxTorrents : RateLimitShowTorrents(success, n)
    \/ Return

SpecRateLimit == Init /\ [][NextRateLimit]_vars

(***************************************************************************)
(* Numbers on their own (stringables.py, Float and Int)                    *)
(*                                                                         *)
(* A Number is constructed, then used: arithmetic makes its result the     *)
(* current number, str() prints the current number and the constructor     *)
(* parses that string again.  An exception ends the session with the       *)
(* status "raise".                                                         *)
(***************************************************************************)

\* numeric texts and the floats they denote
NumberTexts ==
    { << <<"1">>, Whole(1) >>, << <<"2">>, Whole(2) >>, << <<"4">>, Whole(4) >>,
      << <<"1", ".", "5">>, Fin(1500) >>, << <<"0", ".", "0", "0", "1">>, Fin(1) >>,
      << <<"1", "2", "3", "4">>, Whole(1234) >>, << <<"1", "5", "3", "6">>, Whole(1536) >>,
      << <<"9", "9", "9", ".", "9", "9", "9">>, Fin(999999) >>,
      << <<"-", "3">>, Whole(0 - 3) >>, << <<"i", "n", "f">>, PInf >>,
      << <<"-", "i", "n", "f">>, NInf >> }

\* magnitude prefixes as a user can write them, and none
PrefixTokens ==
    { <<>>, <<"k">>, <<"K">>, <<"K", "i">>, <<"k", "i">>, <<"M">>, <<"M", "i">>,
      <<"g">>, <<"G", "i">>, <<"T">>, <<"t", "i">> }

UnitTokens == { <<>>, <<"B">>, <<"b">> }

\* what a prefix token stands for: 1000**n for one letter, 1024**n for two
TokenSize(prfx) ==
    IF prfx = <<>> THEN Whole(1)
    ELSE PrefixSizes[IF Len(prfx) = 2 THEN 1024 ELSE 1000]
                    [CASE Lower(prfx[1]) = "k" -> 1 [] Lower(prfx[1]) = "m" -> 2
                       [] Lower(prfx[1]) = "g" -> 3 [] OTHER -> 4]

\* the strings NUMBER PREFIX UNIT
NumberStrings ==
    { [num |-> t[1], val |-> t[2], prfx |-> p, unit |-> u] :
        t \in NumberTexts, p \in PrefixTokens, u \in UnitTokens }

\* plain Python numbers
NumberRaws ==
    { AsRaw(Whole(0), TRUE), AsRaw(Whole(4), TRUE), AsRaw(Whole(5), TRUE),
      AsRaw(Whole(1234), TRUE), AsRaw(Whole(1536), TRUE), AsRaw(Whole(2), FALSE),
      AsRaw(Whole(999), TRUE), AsRaw(Whole(2000000), TRUE), AsRaw(Fin(12340), FALSE),
      AsRaw(Fin(5500), FALSE), AsRaw(Fin(999999), FALSE), AsRaw(PInf, FALSE) }

\* the value argument of a constructor call: a string with its parts, or a
\* plain number
NumberValues ==
    { [value |-> AsStr(r.num \o r.prfx \o r.unit), parts |-> r] : r \in NumberStrings }
        \cup { [value |-> v, parts |-> NoValue] : v \in NumberRaws }

\* the keyword arguments of a constructor call
NumberKws ==
    { DefaultKw,
      [DefaultKw EXCEPT !.prefix = "binary"],
      [DefaultKw EXCEPT !.prefix = "metric", !.unit = <<"B">>, !.hide_unit = "True"],
      [DefaultKw EXCEPT !.unit = <<"B">>, !.convert_to = <<"b">>],
      [DefaultKw EXCEPT !.unit = <<"b">>, !.convert_to = <<"B">>],
      [DefaultKw EXCEPT !.unit = <<"b", "y", "t", "e">>, !.convert_to = <<"b", "i", "t">>],
      [DefaultKw EXCEPT !.convert_to = <<"b">>],
      [DefaultKw EXCEPT !.min = Whole(0), !.max = Whole(3)],
      [DefaultKw EXCEPT !.max = Whole(10)] }

\* the constructor calls
NumberCalls == [cls : {"Float", "Int"}, input : NumberValues, kw : NumberKws]

\* the operators of lines 445-456 that Python 3 calls
MathFuncs ==
    {"__add__", "__sub__", "__mul__", "__truediv__", "__floordiv__", "__mod__",
     "__divmod__", "__pow__", "__floor__", "__ceil__", "__round__"}

\* the other operand of an operator
MathOthers ==
    { NewFloat_(AsRaw(Whole(3), FALSE), DefaultKw).num,
      NewFloat_(AsRaw(Whole(2), FALSE), DefaultKw).num,
      NewInt_(AsRaw(Whole(2), TRUE), DefaultKw).num,
      NewFloat_(AsRaw(Fin(Scale \div 2), FALSE), DefaultKw).num,
      NewFloat_(AsRaw(PInf, FALSE), DefaultKw).num }

\* operators per number
MaxOps == 2

\* the model computes with finite numbers up to this one
MathMax == 200

\* the call raised `e`
Raised(e) == Finish("raise", Msg("", <<>>, NoValue, e))

\* cls(value, **kw)
NumberStart(cls, input, kw) ==
    LET New(r) ==
            /\ loc' = [name |-> <<>>, made |-> r, self |-> r, ops |-> 0]
            /\ IF r.ok THEN pc' = "number" /\ UNCHANGED result ELSE Raised(r)
    IN  /\ pc = "idle"
        /\ ncmds < MaxCmds
        /\ cmd' = [cmd |-> "number", cls |-> cls, value |-> input.value,
                   parts |-> input.parts, kw |-> kw]
        /\ New(NumberNew_(cls, input.value, kw))
        /\ UNCHANGED <<localcfg, cache, server, trace, ncmds>>

\* self.<funcname>(other): the result is the current number from now on
NumberMath(funcname, other) ==
    LET Done(r) ==
            \* a power with a fractional or a high exponent is not computed
            /\ IF r.ok THEN TRUE ELSE r.exc # "NotComputed"
            /\ loc' = [name |-> <<>>, made |-> loc.made, self |-> IF r.ok THEN r ELSE loc.self,
                       ops |-> loc.ops + 1, prev |-> loc.self.num, funcname |-> funcname,
                       other |-> other, res |-> r]
            /\ IF r.ok THEN UNCHANGED <<pc, result>> ELSE Raised(r)
    IN  /\ pc = "number"
        /\ loc.ops < MaxOps
        /\ loc.self.num.val.k = "fin" => FGe_(Whole(MathMax), FAbs(loc.self.num.val))
        /\ Done(do_math_(loc.self.num, funcname, other))
        /\ UNCHANGED <<localcfg, cache, server, cmd, trace, ncmds>>

\* str(self)
NumberStr ==
    LET Printed(r) ==
            IF r.ok THEN /\ loc' = [s |-> r.s] @@ loc
                         /\ pc' = "number_str"
                         /\ UNCHANGED result
            ELSE Raised(r) /\ UNCHANGED loc
    IN  /\ pc = "number"
        /\ Printed(str_(loc.self.num))
        /\ UNCHANGED <<localcfg, cache, server, cmd, trace, ncmds>>

\* cls(str(self), **kw) with the class and the keywords of the first call
NumberReparse ==
    LET Again(r) ==
            /\ loc' = [again |-> r] @@ loc
            /\ IF r.ok THEN Finish("ok", NoMsg) ELSE Raised(r)
    IN  /\ pc = "number_str"
        /\ Again(NumberNew_(cmd.cls, AsStr(loc.s), cmd.kw))
        /\ UNCHANGED <<localcfg, cache, server, cmd, trace, ncmds>>

\* construct, print, parse again
NextNumber ==
    \/ \E c \in NumberCalls : NumberStart(c.cls, c.input, c.kw)
    \/ NumberStr
    \/ NumberReparse
    \/ Return

\* the settings play no part
InitNumber ==
    /\ localcfg = [n \in LocalNames |-> Default_(n)]
    /\ cache = [n \in RemoteNames |-> NumberOf_(n, PInf)]
    /\ server = cache
    /\ pc = "idle"
    /\ cmd = NoCmd
    /\ loc = NoLoc
    /\ result = NoResult
    /\ trace = <<>>
    /\ ncmds = 0

SpecNumber == InitNumber /\ [][NextNumber]_vars

\* the numbers arithmetic starts from, bounded and not
MathValues ==
    { [value |-> v, parts |-> NoValue] :
        v \in { AsRaw(Whole(2), FALSE), AsRaw(Whole(4), TRUE), AsRaw(Whole(5), TRUE),
                AsRaw(Fin(1500), FALSE), AsStr(<<"-", "i", "n", "f">>),
                AsStr(<<"9", "5", "B">>) } }

MathKws ==
    { DefaultKw,
      [DefaultKw EXCEPT !.min = Whole(0), !.max = Whole(3)],
      [DefaultKw EXCEPT !.max = Whole(10)],
      [DefaultKw EXCEPT !.min = Whole(1), !.max = Whole(100), !.prefix = "binary"] }

\* construct, compute, print
NextMath ==
    \/ \E cls \in {"Float", "Int"}, input \in MathValues, kw \in MathKws :
          NumberStart(cls, input, kw)
    \/ \E funcname \in MathFuncs, other \in MathOthers : NumberMath(funcname, other)
    \/ NumberStr
    \/ Return

SpecMath == InitNumber /\ [][NextMath]_vars

(***************************************************************************)
(* Numbers at the edges: infinite and non-numeric inputs, precise mode,    *)
(* values that round to zeros after the decimal point                      *)
(***************************************************************************)

EdgeValues ==
    { [value |-> v, parts |-> NoValue] :
        v \in { AsRaw(Whole(100), TRUE), AsRaw(Whole(10), TRUE), AsRaw(Whole(7), TRUE),
                AsRaw(Whole(100), FALSE), AsRaw(Whole(10), FALSE),
                AsRaw(Fin(1500), FALSE), AsRaw(Fin(10500), FALSE), AsRaw(Fin(500), FALSE),
                AsRaw(Fin(5996), FALSE), AsRaw(Fin(50040), FALSE), AsRaw(Fin(1999), FALSE),
                AsRaw(Fin(9999), FALSE), AsRaw(Fin(5996000), FALSE),
                AsRaw(Fin(50040000), FALSE), AsRaw(Fin(5123), FALSE),
                AsRaw(Fin(5001), FALSE),
                AsRaw(PInf, FALSE), AsRaw(NInf, FALSE), AsRaw(NaN, FALSE),
                AsStr(<<"i", "n", "f">>), AsStr(<<"-", "i", "n", "f">>),
                AsStr(<<"a", "b", "c">>), AsStr(<<"1", "0", "0">>), AsObj(0),
                AsBytes(<<"1", "0", "0">>, FALSE), AsBytes(<<"a", "b", "c">>, TRUE),
                AsSeq(<<100>>, TRUE), AsSeq(<<>>, FALSE) } }

EdgeKws ==
    { DefaultKw,
      [DefaultKw EXCEPT !.precise = TRUE],
      [DefaultKw EXCEPT !.precise = TRUE, !.unit = <<"B">>],
      [DefaultKw EXCEPT !.unit = <<"B">>, !.prefix = "binary"],
      [DefaultKw EXCEPT !.min = Whole(0)] }

\* construct, print, parse again
NextEdge ==
    \/ \E cls \in {"Float", "Int"}, input \in EdgeValues, kw \in EdgeKws :
          NumberStart(cls, input, kw)
    \/ NumberStr
    \/ NumberReparse
    \/ Return

SpecEdge == InitNumber /\ [][NextEdge]_vars

(***************************************************************************)
(* Tuple (stringables.py, Tuple.__new__ and __str__)                       *)
(*                                                                         *)
(* An item is tagged: a string, AsStr(s), or another hashable object,      *)
(* AsObj(n), here an int.  `options` is [given, items]: None or a          *)
(* collection; `aliases` is a function from items to items.                *)
(***************************************************************************)

\* s.split(sep) for a separator that is not empty
RECURSIVE str_split(_, _, _)
str_split(s, sep, cur) ==
    IF s = <<>> THEN <<cur>>
    ELSE IF StartsWith(s, sep) THEN <<cur>> \o str_split(Drop(s, Len(sep)), sep, <<>>)
    ELSE str_split(Tail(s), sep, Append(cur, Head(s)))

\* normalize(val): the stripped parts of a string, any other value as it is
normalize(val, sep) ==
    LET Items(parts) == [i \in DOMAIN parts |-> AsStr(Strip(parts[i]))]
    IN  IF val.t = "str" THEN Items(str_split(val.s, Strip(sep), <<>>)) ELSE <<val>>

\* chain.from_iterable(normalize(item) for item in value)
RECURSIVE normalize_all(_, _)
normalize_all(value, sep) ==
    IF value = <<>> THEN <<>>
    ELSE normalize(Head(value), sep) \o normalize_all(Tail(value), sep)

\* _resolve_alias(value, aliases) for a hashable value
resolve_alias(value, aliases) ==
    IF value \in DOMAIN aliases THEN aliases[value] ELSE value

\* (item for item in value if not (item in _seen or _seen.add(item)))
RECURSIVE dedup_items(_, _)
dedup_items(value, seen) ==
    IF value = <<>> THEN <<>>
    ELSE IF Head(value) \in seen THEN dedup_items(Tail(value), seen)
    ELSE <<Head(value)>> \o dedup_items(Tail(value), seen \cup {Head(value)})

\* str(item)
item_str(item) == IF item.t = "str" THEN item.s ELSE Digits(item.o)

\* sep.join(str(item) for item in items)
RECURSIVE join_items(_, _)
join_items(sep, items) ==
    IF items = <<>> THEN <<>>
    ELSE IF Len(items) = 1 THEN item_str(items[1])
    ELSE item_str(items[1]) \o sep \o join_items(sep, Tail(items))

\* Tuple.__new__ with the alias resolution after the deduplication
Tuple_new_dedup_first(value, kw) ==
    LET Valid(items) ==
            LET Bad(item) == item \notin kw.options.items
            IN  IF kw.options.given /\ SelectSeq(items, Bad) # <<>>
                    THEN Raise("ValueError", "Invalid option%s: %s",
                               [s |-> IF Len(SelectSeq(items, Bad)) # 1 THEN "s" ELSE "",
                                items |-> join_items(kw.sep, SelectSeq(items, Bad))])
                ELSE [ok |-> TRUE, tuple |-> items, sep |-> kw.sep]
        Aliased(items) == [i \in DOMAIN items |-> resolve_alias(items[i], kw.aliases)]
        Flat(items) == Valid(Aliased(IF kw.dedup THEN dedup_items(items, {}) ELSE items))
    IN  IF Strip(kw.sep) = <<>> /\ \E i \in DOMAIN value : value[i].t = "str"
            THEN Raise("ValueError", "empty separator", kw.sep)
        ELSE Flat(normalize_all(value, kw.sep))

\* Tuple.__new__(cls, *value, sep, options, aliases, dedup): the tuple with
\* its separator, or the exception
Tuple_new(value, kw) ==
    LET \* lines 215-221: the items that are not in options, joined
        Valid(items) ==
            LET Bad(item) == item \notin kw.options.items
                Invalid(invalid_items) ==
                    Raise("ValueError", "Invalid option%s: %s",
                          [s |-> IF Len(invalid_items) # 1 THEN "s" ELSE "",
                           items |-> join_items(kw.sep, invalid_items)])
            IN  IF kw.options.given /\ SelectSeq(items, Bad) # <<>>
                    THEN Invalid(SelectSeq(items, Bad))
                ELSE [ok |-> TRUE, tuple |-> items, sep |-> kw.sep]
        Deduped(items) == Valid(IF kw.dedup THEN dedup_items(items, {}) ELSE items)
        Flat(items) ==
            Deduped(IF DOMAIN kw.aliases # {}
                        THEN [i \in DOMAIN items |-> resolve_alias(items[i], kw.aliases)]
                    ELSE items)
    IN  \* ''.split of str raises for an empty separator
        IF Strip(kw.sep) = <<>> /\ \E i \in DOMAIN value : value[i].t = "str"
            THEN Raise("ValueError", "empty separator", kw.sep)
        ELSE Flat(normalize_all(value, kw.sep))

\* Tuple.__str__
tuple_str(self) == join_items(self.sep, self.tuple)

(***************************************************************************)
(* Tuples on their own                                                     *)
(***************************************************************************)

TupleInputs ==
    { AsStr(<<"a", ",", " ", "b", ",", " ", "a">>),
      AsStr(<<"a", ",", "b">>),
      AsStr(<<" ", "x", " ", ",", "a">>),
      AsStr(<<"y", ",", ",", "b">>),
      AsStr(<<"a", "/", "x">>),
      AsStr(<<>>),
      AsStr(<<"c">>),
      AsObj(1) }

\* the arguments of a call: one or two values
TupleValues == { <<v>> : v \in TupleInputs } \cup { <<v, w>> : v, w \in TupleInputs }

TupleSeps == { <<",", " ">>, <<",">>, <<" ", "/">>, <<" ">> }

TupleOptions ==
    { [given |-> FALSE, items |-> {}],
      [given |-> TRUE, items |-> {AsStr(<<"a">>), AsStr(<<"b">>), AsObj(1)}] }

NoAliases == [item \in {} |-> item]

TupleAliases ==
    { NoAliases,
      [item \in {AsStr(<<"x">>), AsStr(<<"y">>), AsObj(1)} |->
            IF item = AsStr(<<"y">>) THEN AsStr(<<"b">>) ELSE AsStr(<<"a">>)] }

TupleKws ==
    { [sep |-> sep, options |-> options, aliases |-> aliases, dedup |-> dedup] :
        sep \in TupleSeps, options \in TupleOptions, aliases \in TupleAliases,
        dedup \in BOOLEAN }

\* Tuple(*value, **kw)
TupleStart(value, kw) ==
    LET New(r) ==
            /\ loc' = [name |-> <<>>, made |-> r]
            /\ IF r.ok THEN pc' = "tuple" /\ UNCHANGED result ELSE Raised(r)
    IN  /\ pc = "idle"
        /\ ncmds < MaxCmds
        /\ cmd' = [cmd |-> "tuple", value |-> value, kw |-> kw]
        /\ New(Tuple_new(value, kw))
        /\ UNCHANGED <<localcfg, cache, server, trace, ncmds>>

\* str(self)
TupleStr ==
    /\ pc = "tuple"
    /\ loc' = [s |-> tuple_str(loc.made)] @@ loc
    /\ Finish("ok", NoMsg)
    /\ UNCHANGED <<localcfg, cache, server, cmd, trace, ncmds>>

\* construct, print
NextTuple ==
    \/ \E value \in TupleValues, kw \in TupleKws : TupleStart(value, kw)
    \/ TupleStr
    \/ Return

SpecTuple == InitNumber /\ [][NextTuple]_vars

(***************************************************************************)
(* DataCountConverter (_converter.py)                                      *)
(*                                                                         *)
(* A converter is [unit, prefix].  A setter returns [ok |-> TRUE, self],   *)
(* the converter after the assignment, or the exception.                   *)
(***************************************************************************)

Bit == <<"b", "i", "t">>

Byte == <<"b", "y", "t", "e">>

\* ('bit', 'byte', 'b', 'B')
ConverterUnits == {Bit, Byte, <<"b">>, <<"B">>}

\* self._short.get(unit, unit)
Short(unit) == CASE unit = Bit -> <<"b">> [] unit = Byte -> <<"B">> [] OTHER -> unit

\* the unit setter
set_unit(self, unit) ==
    IF unit \notin ConverterUnits
        THEN Raise("ValueError", "Unit must be 'bit or 'byte'", unit)
    ELSE [ok |-> TRUE, self |-> [self EXCEPT !.unit = Short(unit)]]

\* the prefix setter
set_prefix(self, prefix) ==
    IF prefix \notin {"binary", "metric"}
        THEN Raise("ValueError", "Prefix must be 'binary' or 'metric'", prefix)
    ELSE [ok |-> TRUE, self |-> [self EXCEPT !.prefix = prefix]]

\* DataCountConverter(): __init__ assigns prefix 'metric', then unit 'B'
converter_init == [prefix |-> "metric", unit |-> <<"B">>]

\* the properties of a Number (_NumberMixin and StringableMixin); `unit` and
\* `prefix` are kept in self._args and are not attributes
NumberProperties == {"syntax"}

\* _ensure_unit_and_prefix(self, num)
ensure_unit_and_prefix(self, num) ==
    LET Ensure(unit_given) ==
            IF unit_given \notin ConverterUnits
                THEN Raise("ValueError", "Unit must be 'b' (bit) or 'B' (byte), not %r",
                           unit_given)
            ELSE NumberNew_("Float", AsNum(num),
                           [DefaultKw EXCEPT !.convert_to = self.unit, !.prefix = self.prefix])
    IN  \* num.unit
        IF "unit" \notin NumberProperties
            THEN Raise("AttributeError", "'Float' object has no attribute 'unit'", NoUnit)
        ELSE Ensure(IF num.args.unit # NoUnit THEN num.args.unit ELSE self.unit)

\* the Float that __call__ hands to _ensure_unit_and_prefix, or the
\* exception of its construction
converter_float(self, num, unit) ==
    IF num.t = "num" /\ num.n.cls = "Float" THEN Made(num.n)
    ELSE NumberNew_("Float", num,
                   [DefaultKw EXCEPT !.prefix = self.prefix,
                                     !.unit = IF Short(unit) # NoUnit THEN Short(unit)
                                              ELSE self.unit])

\* DataCountConverter.__call__(self, num, unit)
converter_call(self, num, unit) ==
    LET Ensured(made) == IF made.ok THEN ensure_unit_and_prefix(self, made.num) ELSE made
    IN  Ensured(converter_float(self, num, unit))

(***************************************************************************)
(* A converter in use                                                      *)
(***************************************************************************)

ConverterUnitInputs == ConverterUnits \cup {NoUnit, <<"k", "B">>}

ConverterPrefixInputs == {"binary", "metric", "decimal", "None"}

ConverterNums ==
    { AsRaw(Whole(1000), TRUE),
      AsStr(<<"1", "k", "B">>),
      AsStr(<<"8", "b">>),
      AsStr(<<"1", "k", "m">>),
      AsStr(<<"x">>),
      AsNum(NewFloat_(AsRaw(Whole(5), FALSE), [DefaultKw EXCEPT !.unit = <<"b">>]).num),
      AsNum(NewFloat_(AsRaw(Whole(5), FALSE), DefaultKw).num),
      AsNum(NewInt_(AsRaw(Whole(5), TRUE), DefaultKw).num) }

ConverterCallUnits == {NoUnit, Bit, Byte, <<"B">>, <<"m">>}

\* converter = DataCountConverter()
ConverterNew ==
    /\ pc = "idle"
    /\ ncmds < MaxCmds
    /\ cmd' = [cmd |-> "converter"]
    /\ loc' = [name |-> <<>>, conv |-> converter_init, ops |-> 0]
    /\ pc' = "converter"
    /\ UNCHANGED <<localcfg, cache, server, result, trace, ncmds>>

\* the converter after one more operation `op` that gave r
Stepped(op, arg, r) ==
    [name |-> <<>>, conv |-> IF op # "call" /\ r.ok THEN r.self ELSE loc.conv,
     before |-> loc.conv, ops |-> loc.ops + 1, op |-> op, arg |-> arg, res |-> r]

\* converter.unit = unit
ConverterSetUnit(unit) ==
    /\ pc = "converter"
    /\ loc.ops < MaxOps
    /\ loc' = Stepped("unit", [unit |-> unit], set_unit(loc.conv, unit))
    /\ UNCHANGED <<localcfg, cache, server, pc, cmd, result, trace, ncmds>>

\* converter.prefix = prefix
ConverterSetPrefix(prefix) ==
    /\ pc = "converter"
    /\ loc.ops < MaxOps
    /\ loc' = Stepped("prefix", [prefix |-> prefix], set_prefix(loc.conv, prefix))
    /\ UNCHANGED <<localcfg, cache, server, pc, cmd, result, trace, ncmds>>

\* converter(num, unit)
ConverterCall(num, unit) ==
    /\ pc = "converter"
    /\ loc.ops < MaxOps
    /\ loc' = Stepped("call", [num |-> num, unit |-> unit],
                      converter_call(loc.conv, num, unit))
    /\ UNCHANGED <<localcfg, cache, server, pc, cmd, result, trace, ncmds>>

\* the converter is not used any more
ConverterDrop ==
    /\ pc = "converter"
    /\ Finish("ok", NoMsg)
    /\ UNCHANGED <<localcfg, cache, server, cmd, loc, trace, ncmds>>

NextConverter ==
    \/ ConverterNew
    \/ \E unit \in ConverterUnitInputs : ConverterSetUnit(unit)
    \/ \E prefix \in ConverterPrefixInputs : ConverterSetPrefix(prefix)
    \/ \E num \in ConverterNums, unit \in ConverterCallUnits : ConverterCall(num, unit)
    \/ ConverterDrop
    \/ Return

SpecConverter == InitNumber /\ [][NextConverter]_vars

(***************************************************************************)
(* The `rc` command (config.py, RcCmdbase.run)                             *)
(*                                                                         *)
(* rcfile.read and objects.cmdmgr.run_async belong to the environment: a   *)
(* file is [ok, lines], readable or not, and the result of running a line  *)
(* is "True", "False" or "None".                                           *)
(***************************************************************************)

RcFileError == Raise("RcFileError", "Unable to read", <<>>)

RcFiles ==
    { [ok |-> FALSE, lines |-> <<>>] }
        \cup { [ok |-> TRUE, lines |-> lines] :
                lines \in { <<>>, << <<"a">> >>, << <<"a">>, <<"b">> >>,
                            << <<"a">>, <<"b">>, <<"c">> >>,
                            << <<"b">>, <<"a">>, <<"b">> >>,
                            << <<"c">>, <<"b">>, <<"a">>, <<"d">> >>,
                            << <<"a">>, <<"a">>, <<"d">>, <<"c">>, <<"b">> >> } }

RunResults == {"True", "False", "None"}

\* lines 220-226: read the file; the loop begins, or has nothing to do
RcStart(file) ==
    /\ pc = "idle"
    /\ ncmds < MaxCmds
    /\ cmd' = [cmd |-> "rc", file |-> file]
    /\ loc' = [name |-> <<>>, lines |-> file.lines, next |-> 1]
    /\ IF ~file.ok
           THEN Finish("fail", Msg("Loading rc file failed: %s", <<>>, NoValue, RcFileError))
       ELSE IF file.lines = <<>> THEN Finish("ok", NoMsg)
       ELSE pc' = "rc" /\ UNCHANGED result
    /\ UNCHANGED <<localcfg, cache, server, trace, ncmds>>

\* the loop body with `if not success` for `if success is False`
RcRunLine_none_fails(success) ==
    /\ pc = "rc"
    /\ trace' = Append(trace, Event("run_async", [cmdline |-> loc.lines[loc.next],
                                                   success |-> success]))
    /\ loc' = [loc EXCEPT !.next = @ + 1]
    /\ IF success # "True" THEN Finish("fail", NoMsg)
       ELSE IF loc.next = Len(loc.lines) THEN Finish("ok", NoMsg)
       ELSE UNCHANGED <<pc, result>>
    /\ UNCHANGED <<localcfg, cache, server, cmd, ncmds>>

\* lines 227-232: one turn of the loop, success = await run_async(cmdline);
\* the command ends with CmdError() or after the last line
RcRunLine(success) ==
    /\ pc = "rc"
    /\ trace' = Append(trace, Event("run_async", [cmdline |-> loc.lines[loc.next],
                                                   success |-> success]))
    /\ loc' = [loc EXCEPT !.next = @ + 1]
    /\ IF success = "False" THEN Finish("fail", NoMsg)
       ELSE IF loc.next = Len(loc.lines) THEN Finish("ok", NoMsg)
       ELSE UNCHANGED <<pc, result>>
    /\ UNCHANGED <<localcfg, cache, server, cmd, ncmds>>

NextRc ==
    \/ \E file \in RcFiles : RcStart(file)
    \/ \E success \in RunResults : RcRunLine(success)
    \/ Return

SpecRc == InitNumber /\ [][NextRc]_vars

(***************************************************************************)
(* KeyChain (stig.tui.keymap, as its tests in tui_test/keymap_test.py      *)
(* describe it)                                                            *)
(*                                                                         *)
(* A chain is [keys, pos]: the keys k1..kn and the number of keys given.   *)
(***************************************************************************)

\* KeyChain(*keys)
KeyChain(keys) == [keys |-> keys, pos |-> 0]

\* kc.given
given(kc) == SubSeq(kc.keys, 1, kc.pos)

\* kc.is_complete
is_complete(kc) == kc.pos = Len(kc.keys)

\* kc.next_key: [ok |-> FALSE] stands for None, the chain is complete
next_key(kc) ==
    IF is_complete(kc) THEN [ok |-> FALSE, key |-> <<>>]
    ELSE [ok |-> TRUE, key |-> kc.keys[kc.pos + 1]]

\* kc.reset()
reset(kc) == [kc EXCEPT !.pos = 0]

\* kc.advance(): the same as reset() if complete
advance(kc) == IF is_complete(kc) THEN reset(kc) ELSE [kc EXCEPT !.pos = @ + 1]

\* feed that leaves an aborted chain where it was
feed_no_reset(kc, key) ==
    IF next_key(kc).ok /\ next_key(kc).key = key
        THEN [kc |-> advance(kc),
              res |-> IF is_complete(advance(kc)) THEN "COMPLETED" ELSE "ADVANCED"]
    ELSE IF kc.pos = 0 THEN [kc |-> kc, res |-> "REJECTED"]
    ELSE [kc |-> kc, res |-> "ABORTED"]

\* kc.feed(key): the chain afterwards and the returned constant
feed(kc, key) ==
    IF next_key(kc).ok /\ next_key(kc).key = key
        THEN [kc |-> advance(kc),
              res |-> IF is_complete(advance(kc)) THEN "COMPLETED" ELSE "ADVANCED"]
    ELSE IF kc.pos = 0 THEN [kc |-> kc, res |-> "REJECTED"]
    ELSE [kc |-> reset(kc), res |-> "ABORTED"]

(***************************************************************************)
(* A key chain in use                                                      *)
(***************************************************************************)

\* operations on one chain
MaxFeeds == 4

Keys == {<<"a">>, <<"b">>, <<"c">>, <<"x">>}

KeyChains ==
    { << <<"a">> >>, << <<"a">>, <<"b">> >>, << <<"a">>, <<"b">>, <<"c">> >>,
      << <<"a">>, <<"a">>, <<"b">> >> }

\* kc = KeyChain(*keys)
KeyChainNew(keys) ==
    /\ pc = "idle"
    /\ ncmds < MaxCmds
    /\ cmd' = [cmd |-> "keychain", keys |-> keys]
    /\ loc' = [name |-> <<>>, kc |-> KeyChain(keys)]
    /\ pc' = "keychain"
    /\ UNCHANGED <<localcfg, cache, server, result, trace, ncmds>>

\* kc.feed(key)
KeyChainFeed(key) ==
    /\ pc = "keychain"
    /\ Len(trace) < MaxFeeds
    /\ loc' = [loc EXCEPT !.kc = feed(loc.kc, key).kc]
    /\ trace' = Append(trace, Event("feed", [key |-> key, before |-> loc.kc,
                                             res |-> feed(loc.kc, key).res]))
    /\ UNCHANGED <<localcfg, cache, server, pc, cmd, result, ncmds>>

\* kc.advance()
KeyChainAdvance ==
    /\ pc = "keychain"
    /\ Len(trace) < MaxFeeds
    /\ loc' = [loc EXCEPT !.kc = advance(loc.kc)]
    /\ trace' = Append(trace, Event("advance", [key |-> <<>>, before |-> loc.kc, res |-> ""]))
    /\ UNCHANGED <<localcfg, cache, server, pc, cmd, result, ncmds>>

\* kc.reset()
KeyChainReset ==
    /\ pc = "keychain"
    /\ Len(trace) < MaxFeeds
    /\ loc' = [loc EXCEPT !.kc = reset(loc.kc)]
    /\ trace' = Append(trace, Event("reset", [key |-> <<>>, before |-> loc.kc, res |-> ""]))
    /\ UNCHANGED <<localcfg, cache, server, pc, cmd, result, ncmds>>

\* the chain is not used any more
KeyChainDrop ==
    /\ pc = "keychain"
    /\ Finish("ok", NoMsg)
    /\ UNCHANGED <<localcfg, cache, server, cmd, loc, trace, ncmds>>

NextKeyChain ==
    \/ \E keys \in KeyChains : KeyChainNew(keys)
    \/ \E key \in Keys : KeyChainFeed(key)
    \/ KeyChainAdvance
    \/ KeyChainReset
    \/ KeyChainDrop
    \/ Return

SpecKeyChain == InitNumber /\ [][NextKeyChain]_vars

(***************************************************************************)
(* KeyMap with key chains (stig.tui.keymap, as its tests in                *)
(* tui_test/keymap_test.py describe it)                                    *)
(*                                                                         *)
(* A key map is [bindings, active, ctx, foreign]: the bound chains [ctx,   *)
(* kc, action] (a single key is a chain of one key), the chains that have  *)
(* been started, the context of the widget that started them, and what no  *)
(* test tells: whether a started chain takes its next key from a widget of *)
(* another context as well.                                                *)
(***************************************************************************)

DefaultContext == "default"

\* km.bind(keys, action, context) for each of `bindings`
KeyMap(bindings, foreign) ==
    [bindings |-> {[ctx |-> b.ctx, kc |-> KeyChain(b.keys), action |-> b.action] : b \in bindings},
     active |-> {}, ctx |-> DefaultContext, foreign |-> foreign]

\* keypress that lets the aborting key start or run its own binding
keypress_abort_not_consumed(km, context, key) ==
    LET Fed(pool) ==
            LET adv == {c \in pool : feed(c.kc, key).res \in {"ADVANCED", "COMPLETED"}}
                done == {c \in adv : feed(c.kc, key).res = "COMPLETED"}
            IN  IF done # {}
                    THEN [km |-> [km EXCEPT !.active = {}],
                          ran |-> (CHOOSE c \in done : TRUE).action]
                ELSE [km |-> [km EXCEPT !.active = {[c EXCEPT !.kc = feed(c.kc, key).kc] :
                                                        c \in adv},
                                        !.ctx = context],
                      ran |-> ""]
        Started(adv) ==
            IF adv # {} THEN Fed(km.active)
            ELSE Fed({b \in km.bindings : b.ctx = context})
    IN  IF km.active = {} THEN Fed({b \in km.bindings : b.ctx = context})
        ELSE Started({c \in km.active :
                        /\ km.ctx = context \/ km.foreign
                        /\ feed(c.kc, key).res \in {"ADVANCED", "COMPLETED"}})

\* keypress with chain progress kept apart for each context
keypress_progress_per_context(km, context, key) ==
    LET Fed(pool) ==
            LET adv == {c \in pool : feed(c.kc, key).res \in {"ADVANCED", "COMPLETED"}}
                done == {c \in adv : feed(c.kc, key).res = "COMPLETED"}
            IN  IF done # {}
                    THEN [km |-> [km EXCEPT !.active = {}],
                          ran |-> (CHOOSE c \in done : TRUE).action]
                ELSE [km |-> [km EXCEPT !.active = {[c EXCEPT !.kc = feed(c.kc, key).kc] :
                                                        c \in adv},
                                        !.ctx = context],
                      ran |-> ""]
    IN  Fed(IF km.active = {} \/ km.ctx # context
                THEN {b \in km.bindings : b.ctx = context}
            ELSE km.active)

\* widget.keypress(size, key) on a widget wrapped with `context`: the key map
\* afterwards and the action that ran ("" if none).  A started chain has
\* priority: the key is fed to the started chains, or to the chains bound
\* in the widget's context if none is started; a completed chain runs its
\* action and ends all chains, advanced chains stay started, and a key that
\* advances no started chain ends them and is used up.  A key from a widget
\* of another context than the one that started the chains ends them as
\* well, unless it is their next key and km.foreign.
keypress(km, context, key) ==
    LET Fed(pool) ==
            LET adv == {c \in pool : feed(c.kc, key).res \in {"ADVANCED", "COMPLETED"}}
                done == {c \in adv : feed(c.kc, key).res = "COMPLETED"}
            IN  IF done # {}
                    THEN [km |-> [km EXCEPT !.active = {}],
                          ran |-> (CHOOSE c \in done : TRUE).action]
                ELSE [km |-> [km EXCEPT !.active = {[c EXCEPT !.kc = feed(c.kc, key).kc] :
                                                        c \in adv},
                                        !.ctx = context],
                      ran |-> ""]
    IN  Fed(IF km.active = {} THEN {b \in km.bindings : b.ctx = context}
            ELSE IF km.ctx = context \/ km.foreign THEN km.active
            ELSE {})

(***************************************************************************)
(* A key map in use                                                        *)
(***************************************************************************)

\* keypresses on the widgets of one key map: in the default context, and
\* with several contexts
MaxKeys == 7

MaxContextKeys == 4

\* the bindings of the tests: [bindings, widgets, keys, max]
KeyMaps ==
    { \* test_correct_chain, test_incorrect_chain_then_correct_chain,
      \* test_abort_with_bound_key_does_nothing
      [bindings |-> {[ctx |-> DefaultContext, keys |-> << <<"1">>, <<"2">>, <<"3">> >>,
                      action |-> "foo"],
                     [ctx |-> DefaultContext, keys |-> << <<"x">> >>, action |-> "bar"]},
       widgets |-> {DefaultContext},
       keys |-> {<<"1">>, <<"2">>, <<"3">>, <<"x">>},
       max |-> MaxKeys],
      \* test_competing_chains_in_default_context
      [bindings |-> {[ctx |-> DefaultContext, keys |-> << <<"1">>, <<"2">>, <<"3">> >>,
                      action |-> "foo"],
                     [ctx |-> DefaultContext, keys |-> << <<"1">>, <<"2">>, <<"0">> >>,
                      action |-> "bar"]},
       widgets |-> {DefaultContext},
       keys |-> {<<"1">>, <<"2">>, <<"3">>, <<"0">>},
       max |-> MaxKeys],
      \* test_competing_chains_in_default_context_with_different_lengths
      [bindings |-> {[ctx |-> DefaultContext, keys |-> << <<"1">>, <<"2">>, <<"3">> >>,
                      action |-> "foo"],
                     [ctx |-> DefaultContext,
                      keys |-> << <<"1">>, <<"2">>, <<"3">>, <<"4">> >>, action |-> "bar"]},
       widgets |-> {DefaultContext},
       keys |-> {<<"1">>, <<"2">>, <<"3">>, <<"4">>},
       max |-> MaxKeys],
      \* test_correct_contexts, test_wrong_contexts,
      \* test_starting_one_chain_prevents_other_chains
      [bindings |-> {[ctx |-> "A", keys |-> << <<"1">>, <<"2">>, <<"3">> >>, action |-> "foo"],
                     [ctx |-> "B", keys |-> << <<"a">>, <<"b">>, <<"c">> >>, action |-> "bar"]},
       widgets |-> {"A", "B"},
       keys |-> {<<"1">>, <<"2">>, <<"3">>, <<"a">>, <<"b">>, <<"c">>},
       max |-> MaxContextKeys] }

\* km = KeyMap(); km.bind(...); km.wrap(Text, context=...)
KeyMapNew(config, foreign) ==
    /\ pc = "idle"
    /\ ncmds < MaxCmds
    \* with widgets of one context there is nothing to tell
    /\ foreign => Cardinality(config.widgets) > 1
    /\ cmd' = [cmd |-> "keymap", config |-> config]
    /\ loc' = [name |-> <<>>, km |-> KeyMap(config.bindings, foreign)]
    /\ pc' = "keymap"
    /\ UNCHANGED <<localcfg, cache, server, result, trace, ncmds>>

\* widget.keypress(size, key)
KeyMapKeypress(context, key) ==
    /\ pc = "keymap"
    /\ Len(trace) < cmd.config.max
    /\ context \in cmd.config.widgets
    /\ key \in cmd.config.keys
    /\ loc' = [loc EXCEPT !.km = keypress(loc.km, context, key).km]
    /\ trace' = Append(trace, Event("keypress",
                                    [context |-> context, key |-> key,
                                     started |-> loc.km.active # {},
                                     ran |-> keypress(loc.km, context, key).ran]))
    /\ UNCHANGED <<localcfg, cache, server, pc, cmd, result, ncmds>>

\* the key map is not used any more
KeyMapDrop ==
    /\ pc = "keymap"
    /\ Finish("ok", NoMsg)
    /\ UNCHANGED <<localcfg, cache, server, cmd, loc, trace, ncmds>>

NextKeyMap ==
    \/ \E config \in KeyMaps, foreign \in BOOLEAN : KeyMapNew(config, foreign)
    \/ \E context \in {DefaultContext, "A", "B"},
          key \in {<<"1">>, <<"2">>, <<"3">>, <<"4">>, <<"0">>, <<"x">>,
                   <<"a">>, <<"b">>, <<"c">>} :
            KeyMapKeypress(context, key)
    \/ KeyMapDrop
    \/ Return

SpecKeyMap == InitNumber /\ [][NextKeyMap]_vars

(***************************************************************************)
(* Properties of the `set` command                                         *)
(***************************************************************************)

\* some event of this kind is in the trace of the running command
HasEvent(ev) == \E i \in DOMAIN trace : trace[i].ev = ev

\* the argument of the first event of this kind
EventArg(ev) == trace[CHOOSE i \in DOMAIN trace : trace[i].ev = ev].arg

\* `set` got past the operator step: its literal, operator and value are known
Resolved == cmd.cmd = "set" /\ "op" \in DOMAIN loc

\* the current value is a finite number
FiniteCurrent == IsNumeric(loc.current) /\ loc.current.n.val.k = "fin"

\* the literal starts with `+=` or `-=`
LiteralHasOp ==
    /\ loc.literal.t = "str"
    /\ Len(loc.literal.s) >= 2
    /\ Take(loc.literal.s, 2) \in {<<"+", "=">>, <<"-", "=">>}

\* C1: whenever `set` with a literal `+=d` on a setting whose current value c
\* is a finite number hands a value to objects.cfg.set, that value is the
\* number c + d.
C1_AddHandsSum ==
    (Resolved /\ HasEvent("write") /\ loc.op = "__add__" /\ FiniteCurrent)
        => /\ EventArg("write").t = "num"
           /\ EventArg("write").n.val = FAdd_(loc.current.n.val, loc.delta.n.val)

\* C1: `set tui.log.height +=100kB` with the current value 50 has written 100050
C1_Witness ==
    /\ Resolved
    /\ pc = "done"
    /\ result.status = "ok"
    /\ loc.name = TuiLogHeight
    /\ loc.op = "__add__"
    /\ loc.current.n.val = Whole(50)
    /\ loc.delta.n.val = Whole(100000)
    /\ EventArg("write").n.val = Whole(100050)
    /\ localcfg[TuiLogHeight].n.val = Whole(100050)

\* C2: whenever `set` with a literal `-=d` on a setting whose current value c
\* is a finite number produces an adjusted value, that value is c - d, for
\* integer and float settings alike.
C2_SubHandsDifference ==
    (Resolved /\ HasEvent("write") /\ loc.op = "__sub__" /\ FiniteCurrent)
        => /\ EventArg("write").t = "num"
           /\ EventArg("write").n.val = FSub_(loc.current.n.val, loc.delta.n.val)

\* C2: `set tui.log.height -=50` with the current value 10 has handed 40 (d - c)
\* to the write path
C2_Witness ==
    /\ Resolved
    /\ HasEvent("write")
    /\ loc.name = TuiLogHeight
    /\ loc.op = "__sub__"
    /\ loc.current.n.val = Whole(10)
    /\ loc.delta.n.val = Whole(50)
    /\ EventArg("write").n.val = Whole(40)

\* C3: when the literal starts with `+=` or `-=` and the current value of the
\* setting is not a number, no operator is applied, the command does not fail
\* at the operator step and the value for the write path is the literal itself.
C3_NonNumericKeepsLiteral ==
    (Resolved /\ LiteralHasOp /\ ~IsNumeric(loc.current))
        => /\ loc.op = "None"
           /\ loc.value = loc.literal
           /\ (pc = "set_write" \/ HasEvent("write"))

\* C3: `set srv.url -=1` has handed the number 1 to the write path
C3_Witness ==
    /\ Resolved
    /\ HasEvent("write")
    /\ loc.name = SrvUrl
    /\ loc.literal = AsStr(<<"-", "=", "1">>)
    /\ EventArg("write").t = "num"
    /\ EventArg("write").n.val = Whole(1)

\* the value of `current value operator delta` in plain arithmetic
PlainResult ==
    IF loc.op = "__add__" THEN FAdd_(loc.current.n.val, loc.delta.n.val)
    ELSE FSub_(loc.current.n.val, loc.delta.n.val)

\* that value is outside the bounds of the current value
LeavesBounds ==
    \/ loc.current.n.args.min.k # "none" /\ FLt_(PlainResult, loc.current.n.args.min)
    \/ loc.current.n.args.max.k # "none" /\ FGt_(PlainResult, loc.current.n.args.max)

\* C4: when `+=d` or `-=d` on a bounded numeric setting would leave [min, max],
\* the command fails without reaching the write path and its message is
\* `<name> = <v>: <reason>` with v the unclamped result of current value and d.
C4_OutOfBoundsFails ==
    (Resolved /\ loc.op # "None" /\ FiniteCurrent /\ LeavesBounds)
        => /\ pc = "done"
           /\ result.status = "fail"
           /\ ~HasEvent("write")
           /\ result.msg.fmt = "%s = %s: %s"
           /\ result.msg.name = loc.name
           /\ result.msg.value.t = "num"
           /\ result.msg.value.n.val = PlainResult
           /\ result.msg.err.exc = "ValueError"

\* C4: `set tui.log.height -=50` with the current value 10 and the minimum 1
\* (10 - 50 leaves the bounds) has written 40
C4_Witness ==
    /\ Resolved
    /\ pc = "done"
    /\ result.status = "ok"
    /\ loc.name = TuiLogHeight
    /\ loc.op = "__sub__"
    /\ loc.current.n.val = Whole(10)
    /\ loc.current.n.args.min = Whole(1)
    /\ loc.delta.n.val = Whole(50)
    /\ localcfg[TuiLogHeight].n.val = Whole(40)

\* what the shell command of the running `set` printed and returned
Proc == EventArg("shell")

\* some of its output is not UTF-8
Undecodable == ~decode(Proc.stdout).ok \/ ~decode(Proc.stderr).ok

\* C5 (as stated): `set NAME:eval CMD` fails exactly when the command's stderr,
\* stripped of newlines, is not empty, whatever the exit status: then it fails
\* with `<name>: <stderr>` and nothing is written; otherwise it succeeds with
\* the command's stdout as the literal value.
C5_EvalFailsIffStderr ==
    (cmd.cmd = "set" /\ pc = "done" /\ HasEvent("shell"))
        => IF StripNewlines(Proc.stderr) # <<>>
              THEN /\ result.status = "fail"
                   /\ result.msg = Msg("%s: %s", loc.name, NoValue,
                                       Raise("ValueError", "%s", StripNewlines(Proc.stderr)))
                   /\ ~HasEvent("write")
           ELSE /\ result.status = "ok"
                /\ Resolved
                /\ loc.literal = parse_value(<<StripNewlines(Proc.stdout)>>,
                                             IsSequence(loc.current))

\* C5 (amended): the evaluation step of `set NAME:eval CMD` fails exactly when
\* the command's output is not UTF-8 or its stderr, stripped of newlines, is
\* not empty, whatever the exit status: then the command fails with
\* `<name>: <decoding error>` or `<name>: <stderr>` and nothing is written;
\* otherwise the stripped stdout becomes the literal value and the command
\* goes on as with a typed VALUE.
C5_EvalStepFailsIffStderrOrUndecodable ==
    (cmd.cmd = "set" /\ HasEvent("shell"))
        => IF Undecodable
              THEN /\ pc = "done"
                   /\ result.status = "fail"
                   /\ result.msg.fmt = "%s: %s"
                   /\ result.msg.name = loc.name
                   /\ result.msg.err.exc = "UnicodeDecodeError"
                   /\ ~Resolved
                   /\ ~HasEvent("write")
           ELSE IF StripNewlines(Proc.stderr) # <<>>
              THEN /\ pc = "done"
                   /\ result.status = "fail"
                   /\ result.msg = Msg("%s: %s", loc.name, NoValue,
                                       Raise("ValueError", "%s", StripNewlines(Proc.stderr)))
                   /\ ~Resolved
                   /\ ~HasEvent("write")
           ELSE /\ Resolved
                /\ result.msg.fmt # "%s: %s"
                /\ loc.literal = parse_value(<<StripNewlines(Proc.stdout)>>,
                                             IsSequence(loc.current))

\* C5: a command that exits 0 and prints to stderr has made `set` fail
C5_Witness ==
    /\ cmd.cmd = "set"
    /\ pc = "done"
    /\ HasEvent("shell")
    /\ EventArg("shell").returncode = 0
    /\ EventArg("shell").stderr = <<"e", "r", "r", "\n">>
    /\ result.status = "fail"
    /\ result.msg.err.arg = <<"e", "r", "r">>

\* NAME without a trailing `:eval`
BareName ==
    IF EndsWith(cmd.NAME, EvalSuffix) THEN Take(cmd.NAME, Len(cmd.NAME) - 5) ELSE cmd.NAME

\* C6: `set` strips a trailing `:eval` from NAME; when the bare name is not a
\* setting the command has failed with `Unknown setting: <bare name>` and has
\* made no update(), run no shell command and written nothing.
C6_UnknownNameFailsFirst ==
    (cmd.cmd = "set" /\ cmd.NAME # <<>>)
        => IF InCfg(BareName)
              THEN loc.name = BareName /\ result.msg.err.why # "Unknown setting: %s"
           ELSE /\ pc = "done"
                /\ result.status = "fail"
                /\ result.msg = Msg("%s", <<>>, NoValue,
                                    Raise("ValueError", "Unknown setting: %s", BareName))
                /\ trace = <<>>

\* C6: `set nope:eval CMD` has failed with `Unknown setting: nope`
C6_Witness ==
    /\ cmd.cmd = "set"
    /\ cmd.NAME = UnknownName \o EvalSuffix
    /\ pc = "done"
    /\ result.status = "fail"
    /\ result.msg.err.arg = UnknownName
    /\ trace = <<>>

\* C7: for a remote setting `set` completes exactly one update() first: the
\* current value is read, the shell command run and the value written only
\* after it, and the value read is the daemon's; when the update() fails the
\* command fails and does nothing else. For a local setting there is no
\* update().
C7_UpdateBeforeRemoteUse ==
    (cmd.cmd = "set" /\ loc.name # <<>>)
        => IF is_remote(loc.name)
              THEN /\ \A i \in DOMAIN trace :
                        trace[i].ev \in {"read", "shell", "write"}
                            => i > 1 /\ trace[1].ev = "update"
                   /\ \A i \in DOMAIN trace :
                        trace[i].ev \in {"update", "update_failed"} => i = 1
                   /\ (HasEvent("read") /\ ~HasEvent("write"))
                        => EventArg("read") = server[loc.name]
                   /\ HasEvent("update_failed")
                        => /\ pc = "done"
                           /\ result.status = "fail"
                           /\ result.msg.err = ClientError
                           /\ Len(trace) = 1
                   /\ pc \in {"set_resolve", "set_write", "done"} => trace # <<>>
           ELSE ~HasEvent("update") /\ ~HasEvent("update_failed")

\* C7: `set srv.limit.rate.up:eval CMD` has updated, read, run CMD and written,
\* in this order, starting with a stale cached value
C7_Witness ==
    /\ cmd.cmd = "set"
    /\ cmd.NAME = SrvLimitRateUp \o EvalSuffix
    /\ pc = "done"
    /\ result.status = "ok"
    /\ [i \in DOMAIN trace |-> trace[i].ev] = <<"update", "read", "shell", "write">>
    /\ EventArg("read").n.val = PInf
    /\ server[SrvLimitRateUp].n.val = Whole(7)

\* C8 as stated: when the write of `set` fails, the failure message embeds the
\* setting name and the attempted value, for a validation error and for a
\* connectivity error alike.
C8_WriteFailureEmbedsBoth ==
    (cmd.cmd = "set" /\ pc = "done" /\ HasEvent("write") /\ result.status = "fail")
        => /\ result.msg.name = loc.name
           /\ result.msg.value = EventArg("write")

\* C8 amended: when the write of `set` fails with a validation error the
\* message is `<name> = <value>: <error>`; when it fails with a connectivity
\* error the message is that error's text alone.
C8_WriteFailureMessage ==
    (cmd.cmd = "set" /\ pc = "done" /\ HasEvent("write") /\ result.status = "fail")
        => IF result.msg.err.exc = "ValueError"
              THEN /\ result.msg.fmt = "%s = %s: %s"
                   /\ result.msg.name = loc.name
                   /\ result.msg.value = EventArg("write")
           ELSE /\ result.msg.err = ClientError
                /\ result.msg.fmt = "%s"
                /\ result.msg.name = <<>>
                /\ result.msg.value = NoValue

\* C8: the write of `set srv.limit.rate.up 7` has failed with a connectivity error
C8_Witness ==
    /\ cmd.cmd = "set"
    /\ pc = "done"
    /\ loc.name = SrvLimitRateUp
    /\ HasEvent("write")
    /\ EventArg("write") = AsStr(<<"7">>)
    /\ result.status = "fail"
    /\ result.msg.err = ClientError

(***************************************************************************)
(* Properties of the `reset` command                                       *)
(***************************************************************************)

\* what `reset` does with one name
ResetOutcome(name) ==
    IF name \in LocalNames THEN Event("reset", AsStr(name))
    ELSE IF name \in RemoteNames
        THEN ErrorEvent("Remote settings cannot be reset: %s", name)
    ELSE ErrorEvent("Unknown setting: %s", name)

\* C9: `reset N1 ... Nk` handles every name, in order, whatever happened to
\* the names before it: a local name is reset to its default, a remote name
\* is reported as `Remote settings cannot be reset: <name>`, an unknown name
\* as `Unknown setting: <name>`; no other setting changes, and the command
\* fails, with the one CmdError after the loop, exactly when some name failed.
C9_ResetHandlesEveryName ==
    (cmd.cmd = "reset" /\ pc = "done")
        => LET names == listify_args(cmd.NAME)
           IN  /\ trace = [i \in 1..Len(names) |-> ResetOutcome(names[i])]
               /\ \A n \in LocalNames :
                    localcfg[n] = IF \E i \in 1..Len(names) : names[i] = n
                                     THEN Default_(n)
                                  ELSE loc.before[n]
               /\ result.status =
                    IF \E i \in 1..Len(names) : names[i] \notin LocalNames THEN "fail" ELSE "ok"
               /\ result.msg = NoMsg

\* C9: `reset tui.log.height nope tui.poll` with both settings away from their
\* defaults has reset both, reported `nope` and failed
C9_Witness ==
    /\ cmd.cmd = "reset"
    /\ pc = "done"
    /\ cmd.NAME = <<TuiLogHeight, UnknownName, TuiPoll>>
    /\ loc.before[TuiLogHeight] # Default_(TuiLogHeight)
    /\ loc.before[TuiPoll] # Default_(TuiPoll)
    /\ localcfg[TuiLogHeight] = Default_(TuiLogHeight)
    /\ localcfg[TuiPoll] = Default_(TuiPoll)
    /\ trace[2] = ErrorEvent("Unknown setting: %s", UnknownName)
    /\ result.status = "fail"

(***************************************************************************)
(* Properties of the `ratelimit` command                                   *)
(***************************************************************************)

\* the API calls that set or adjust a limit
SetCalls ==
    {"set_limit_rate", "adjust_limit_rate", "torrent.set_limit_rate", "torrent.adjust_limit_rate"}

\* `ratelimit` has ended after it started setting or adjusting limits
RateLimitSetDone ==
    /\ cmd.cmd = "ratelimit"
    /\ pc = "done"
    /\ "directions" \in DOMAIN loc
    /\ ~loc.show
    \* select_torrents accepted the filter
    /\ loc.global \/ select_torrents(cmd.TORRENT_FILTER).ok

\* C10: when `ratelimit` with several directions has ended, the set or adjust
\* call of every direction was made, also when the call of an earlier
\* direction failed, for the global limits and for torrents alike.
C10_EveryDirectionAttempted ==
    RateLimitSetDone
        => \A i \in DOMAIN loc.directions :
              \E j \in DOMAIN trace :
                  trace[j].ev \in SetCalls /\ trace[j].arg.d = loc.directions[i]

\* C10: the global `ratelimit up,down 1k` has failed at `up` with a
\* connectivity error and has made no call for `down`
C10_Witness ==
    /\ RateLimitSetDone
    /\ loc.global
    /\ loc.directions = <<Up, Down>>
    /\ result.status = "fail"
    /\ result.msg.err = ClientError
    /\ [j \in DOMAIN trace |-> trace[j].ev] = <<"set_limit_rate">>
    /\ trace[1].arg.d = Up

(***************************************************************************)
(* Properties of numbers                                                   *)
(***************************************************************************)

\* a Number was constructed, or the constructor raised, from a string
FromString == cmd.cmd = "number" /\ pc # "idle" /\ cmd.value.t = "str"

\* the numeric part of the string times what its prefix token stands for
PartsValue == FMul_(cmd.parts.val, TokenSize(cmd.parts.prfx))

\* the unit the constructor starts from: the string's, else the argument
SourceUnit == IF cmd.parts.unit # <<>> THEN cmd.parts.unit ELSE cmd.kw.unit

\* the value of an instance of the constructed class: an Int is rounded
AsClass(x) == IF cmd.cls = "Int" /\ x.k = "fin" THEN FRound_(x) ELSE x

ByteUnits == { <<"B">>, <<"b", "y", "t", "e">> }

BitUnits == { <<"b">>, <<"b", "i", "t">> }

\* C11: a Number constructed from a string with source unit byte and
\* conversion target bit is 8 times the prefix-scaled value, with source unit
\* bit and target byte an eighth of it, and its unit is the target unit; the
\* units may be spelled byte and bit as in Float("1k", convert_to="bit",
\* unit="byte") == 8000.
C11_ByteBitConversion ==
    (/\ FromString
     /\ cmd.parts.val.k = "fin"
     /\ cmd.kw.min = NoneF
     /\ cmd.kw.max = NoneF
     /\ \/ SourceUnit \in ByteUnits /\ cmd.kw.convert_to \in BitUnits
        \/ SourceUnit \in BitUnits /\ cmd.kw.convert_to \in ByteUnits)
        => /\ loc.made.ok
           /\ loc.made.num.args.unit = cmd.kw.convert_to
           /\ loc.made.num.val =
                AsClass(IF SourceUnit \in ByteUnits THEN FScale_(PartsValue, 8)
                        ELSE FDivInt_(PartsValue, 8))

\* C11: Float("1k", convert_to="bit", unit="byte") has raised `Cannot convert
\* byte to bit`
C11_Witness ==
    /\ FromString
    /\ cmd.cls = "Float"
    /\ cmd.value = AsStr(<<"1", "k">>)
    /\ cmd.kw.unit = <<"b", "y", "t", "e">>
    /\ cmd.kw.convert_to = <<"b", "i", "t">>
    /\ pc = "done"
    /\ result.status = "raise"
    /\ result.msg.err.exc = "ValueError"
    /\ result.msg.err.why = "Cannot convert %s to %s"

\* the constructor converted between units
Converted ==
    cmd.kw.convert_to # NoUnit /\ SourceUnit # NoUnit /\ SourceUnit # cmd.kw.convert_to

\* C12: a string NUMBER PREFIX UNIT is a number: with a two-letter prefix, in
\* any case, the Number is NUMBER * 1024^n and its prefix is binary; with a
\* one-letter prefix it is NUMBER * 1000^n and metric, whatever prefix the
\* caller passed; without a prefix it is NUMBER and the prefix is the
\* caller's, or metric.
C12_PrefixScalesAndSets ==
    FromString
        => /\ ~loc.made.ok => loc.made.why # "Not a number: %r"
           /\ loc.made.ok
                => /\ loc.made.num.args.prefix =
                        CASE Len(cmd.parts.prfx) = 2 -> "binary"
                          [] Len(cmd.parts.prfx) = 1 -> "metric"
                          [] OTHER -> IF cmd.kw.prefix = "None" THEN "metric" ELSE cmd.kw.prefix
                   /\ ~Converted => loc.made.num.val = AsClass(PartsValue)

\* C12: Float("1kiB", prefix="metric", ...) is 1024 with the prefix binary
C12_Witness ==
    /\ FromString
    /\ cmd.cls = "Float"
    /\ cmd.value = AsStr(<<"1", "k", "i", "B">>)
    /\ cmd.kw.prefix = "metric"
    /\ loc.made.ok
    /\ loc.made.num.val = Whole(1024)
    /\ loc.made.num.args.prefix = "binary"

\* C13: for every constructor call that yields a Number, the constructor
\* called again with the Number's string form and the same options yields a
\* Number of the same value.
C13_RoundTrip ==
    (cmd.cmd = "number" /\ "again" \in DOMAIN loc)
        => /\ loc.again.ok
           /\ loc.again.num.val = loc.made.num.val

\* C13: Float(1234) prints as `1.23k`, and Float("1.23k") is 1230
C13_Witness ==
    /\ cmd.cmd = "number"
    /\ cmd.cls = "Float"
    /\ cmd.value = AsRaw(Whole(1234), TRUE)
    /\ cmd.kw = DefaultKw
    /\ pc = "done"
    /\ loc.made.num.val = Whole(1234)
    /\ loc.s = <<"1", ".", "2", "3", "k">>
    /\ loc.again.ok
    /\ loc.again.num.val = Whole(1230)

\* `body` renders the positive float q as the default string form
\* prescribes: digits, then at most two decimals when q is below 10, at most
\* one when it is below 100 and none above, no decimal point for a whole q,
\* and a value within half a unit of the last place allowed.  q is num / den
\* exactly, and the digits shown are the integer `shown` over 10^allowed.
Renders(body, q) ==
    LET i == DigitEnd(body, 1)
        dot == i <= Len(body) /\ body[i] = "."
        decs == IF dot THEN Len(body) - i ELSE 0
        Near(num, den, allowed, shown) ==
            LET Off(x, y) == IF BCmp(x, y) >= 0 THEN BSub(x, y) ELSE BSub(y, x)
                Twice(x) == BAdd(x, x)
            IN  /\ decs <= allowed
                /\ BCmp(Twice(Off(BMul_(shown, den), BMul_(num, BNat(Pow(10, allowed))))), den) <= 0
        Below(num, den, n) == BCmp(num, BMulSmall(den, n)) < 0
        Placed(num, den, allowed) ==
            Near(num, den, allowed,
                 BDigitsValue_(SubSeq(body, 1, i - 1) \o SubSeq(body, i + 1, Len(body))
                              \o [j \in 1..(allowed - decs) |-> "0"]))
        Ranged(num, den) ==
            Placed(num, den, IF Below(num, den, 10) THEN 2 ELSE IF Below(num, den, 100) THEN 1 ELSE 0)
        Parts(d) == IF d.e >= 0 THEN Ranged(BShl(d.m, d.e), <<1>>)
                    ELSE Ranged(d.m, BShl(<<1>>, 0 - d.e))
    IN  /\ i > 1
        /\ IF dot THEN DigitEnd(body, i + 1) = Len(body) + 1 ELSE i = Len(body) + 1
        /\ IsIntegral(q) => ~dot
        /\ decs <= 2
        /\ Parts(ToD_(q))

\* the prefix the default string form shows for an absolute value: the
\* largest of k, M, G, T (1000^n) or Ki, Mi, Gi, Ti (1024^n) that the value
\* reaches, as [p, size]; no prefix below the smallest
ShownPrefix(abs, prefix) ==
    LET base == IF prefix = "binary" THEN 1024 ELSE 1000
        names == IF prefix = "binary"
                    THEN << <<"K", "i">>, <<"M", "i">>, <<"G", "i">>, <<"T", "i">> >>
                 ELSE << <<"k">>, <<"M">>, <<"G">>, <<"T">> >>
        reached == {n \in 1..4 : FGe_(abs, PrefixSizes[base][n])}
    IN  IF reached = {} THEN [p |-> <<>>, size |-> Whole(1)]
        ELSE LET n == CHOOSE n \in reached : \A m \in reached : m <= n
             IN  [p |-> names[n], size |-> PrefixSizes[base][n]]

\* C14: the default string form of a finite Number other than zero is the
\* value divided by the largest prefix of its prefix system that it reaches
\* (a float division), printed with at most two decimals below 10, at most
\* one below 100 and none above and without a decimal point when whole, then
\* the prefix, then the unit unless it is hidden; zero prints as `0`; 1536
\* with the binary prefix prints as `1.5Ki`, 999 as `999` and 999.999 as
\* `1000`.
C14_DefaultStringForm ==
    (cmd.cmd = "number" /\ "s" \in DOMAIN loc /\ ~loc.self.num.args.precise)
        => LET self == loc.self.num
               v == self.val
               unit == IF self.args.hide_unit = "True" THEN <<>> ELSE self.args.unit
               Shown(shown) ==
                   LET tail == shown.p \o unit
                       body == Take(loc.s, Len(loc.s) - Len(tail))
                   IN  /\ EndsWith(loc.s, tail)
                       /\ FSign(v) < 0 => body # <<>> /\ body[1] = "-"
                       /\ Renders(IF FSign(v) < 0 THEN Tail(body) ELSE body,
                                  FDiv_(FAbs(v), shown.size))
           IN  /\ v = Fin(0) => loc.s = <<"0">>
               /\ (v.k = "fin" /\ v # Fin(0)) => Shown(ShownPrefix(FAbs(v), self.args.prefix))
               /\ (v = Whole(1536) /\ self.args.prefix = "binary" /\ unit = <<>>)
                    => loc.s = <<"1", ".", "5", "K", "i">>
               /\ (v = Whole(999) /\ unit = <<>>) => loc.s = <<"9", "9", "9">>
               /\ (v = Fin(999999) /\ unit = <<>>) => loc.s = <<"1", "0", "0", "0">>

\* C14: Float(1536, prefix="binary") has printed as `1.5Ki`
C14_Witness ==
    /\ cmd.cmd = "number"
    /\ cmd.cls = "Float"
    /\ cmd.value = AsRaw(Whole(1536), TRUE)
    /\ cmd.kw.prefix = "binary"
    /\ "s" \in DOMAIN loc
    /\ loc.self.num.val = Whole(1536)
    /\ loc.s = <<"1", ".", "5", "K", "i">>

\* a float that a decimal text with at most three decimals denotes
Decimal(a) == a.k = "fin" /\ "m" \notin DOMAIN a

\* add, subtract, multiply, divide, floor-divide, floor, ceil and round
ClaimedFuncs ==
    {"__add__", "__sub__", "__mul__", "__truediv__", "__floordiv__",
     "__floor__", "__ceil__", "__round__"}

\* one of these operators was applied to finite operands of at most three
\* decimals and returned a Number
Computed ==
    /\ cmd.cmd = "number"
    /\ "res" \in DOMAIN loc
    /\ loc.res.ok
    /\ loc.funcname \in ClaimedFuncs
    /\ Decimal(loc.prev.val)
    /\ loc.funcname \in {"__floor__", "__ceil__", "__round__"} \/ Decimal(loc.other.val)

\* the exact result of a <funcname> b is an integer (a, b of at most three
\* decimals, b # 0 for the divisions)
ExactInteger(a, funcname, b) ==
    CASE funcname = "__add__" -> (a.v + b.v) % Scale = 0
      [] funcname = "__sub__" -> (a.v - b.v) % Scale = 0
      [] funcname = "__mul__" -> (a.v * b.v) % (Scale * Scale) = 0
      [] funcname = "__truediv__" -> a.v % (IF b.v < 0 THEN 0 - b.v ELSE b.v) = 0
      [] OTHER -> TRUE

\* C15: the result of an arithmetic operator on finite Numbers is an Int if
\* and only if the exact result is an integer, and a Float otherwise, whatever
\* the classes of the operands; Float(2.0) + Float(3.0) is an Int that prints
\* as `5`.
C15_IntegerResultIffExact ==
    Computed
        => /\ loc.res.num.cls = "Int"
                <=> ExactInteger(loc.prev.val, loc.funcname, loc.other.val)
           /\ (/\ loc.prev.cls = "Float"
               /\ loc.prev.val = Whole(2)
               /\ loc.funcname = "__add__"
               /\ loc.other.cls = "Float"
               /\ loc.other.val = Whole(3)
               /\ "s" \in DOMAIN loc) => loc.s = <<"5">>

\* C15: Int(4) / Float(2) has returned the Float 0.5
C15_Witness ==
    /\ Computed
    /\ loc.prev.cls = "Int"
    /\ loc.prev.val = Whole(4)
    /\ loc.funcname = "__truediv__"
    /\ loc.other.cls = "Float"
    /\ loc.other.val = Whole(2)
    /\ loc.res.num.cls = "Float"
    /\ loc.res.num.val = Fin(Scale \div 2)

\* min <= value <= max for the bounds the Number carries
InBounds(num) ==
    /\ num.args.min # NoneF => FGe_(num.val, num.args.min)
    /\ num.args.max # NoneF => FGe_(num.args.max, num.val)

\* the Numbers that exist: the constructed one, the current one and the last
\* result
Existing ==
    {r.num : r \in {x \in {loc.made, loc.self}
                            \cup (IF "res" \in DOMAIN loc THEN {loc.res} ELSE {}) : x.ok}}

\* C16: every Number that exists after constructions and arithmetic
\* operations has min <= value <= max for the bounds it carries, and a
\* construction or result outside the bounds has raised `Too small` or `Too
\* big` instead.
C16_BoundsInvariant ==
    (cmd.cmd = "number" /\ pc # "idle")
        => /\ \A num \in Existing : InBounds(num)
           /\ \A r \in {loc.made} \cup (IF "res" \in DOMAIN loc THEN {loc.res} ELSE {}) :
                (~r.ok /\ r.exc = "ValueError" /\ r.arg \in {cmd.kw.min, cmd.kw.max}
                    /\ r.arg # NoneF)
                    => r.why \in {"Too small (minimum is %s)", "Too big (maximum is %s)"}

\* C16: Float('-inf', max=10) + Float('inf') has returned a Number that is
\* not a number and carries max=10
C16_Witness ==
    /\ cmd.cmd = "number"
    /\ cmd.cls = "Float"
    /\ cmd.kw.max = Whole(10)
    /\ "res" \in DOMAIN loc
    /\ loc.prev.val = NInf
    /\ loc.funcname = "__add__"
    /\ loc.other.val = PInf
    /\ loc.res.ok
    /\ loc.res.num.val = NaN
    /\ loc.res.num.args.max = Whole(10)

(***************************************************************************)
(* Properties of Tuple                                                     *)
(***************************************************************************)

\* p occurs in s at index i
OccursAt(s, p, i) == i + Len(p) - 1 <= Len(s) /\ SubSeq(s, i, i + Len(p) - 1) = p

\* s without its whitespace
Squeeze(s) == LET Ink(c) == c \notin Whitespace IN SelectSeq(s, Ink)

\* `items` are the stripped parts of the string s between the occurrences of
\* the separator sp (whose occurrences do not overlap)
IsSplit(items, s, sp) ==
    /\ Len(items) = 1 + Cardinality({i \in 1..Len(s) : OccursAt(s, sp, i)})
    /\ \A n \in DOMAIN items :
          /\ items[n].t = "str"
          /\ items[n].s = Strip(items[n].s)
          /\ \A i \in 1..Len(items[n].s) : ~OccursAt(items[n].s, sp, i)
    /\ Squeeze(join_items(sp, items)) = Squeeze(s)

\* the items of `post` without the repetitions, in order of first occurrence
FirstOccurrences(post) ==
    LET keep == {i \in DOMAIN post : \A j \in 1..(i - 1) : post[j] # post[i]}
        Nth(n) == CHOOSE i \in keep : Cardinality({j \in keep : j <= i}) = n
    IN  [n \in 1..Cardinality(keep) |-> post[Nth(n)]]

\* the items Tuple is to hold for the arguments of the running call: the
\* pieces after alias resolution, without repetitions under dedup
ExpectedItems ==
    LET pieces == normalize_all(cmd.value, cmd.kw.sep)
        post == [i \in DOMAIN pieces |->
                     IF pieces[i] \in DOMAIN cmd.kw.aliases THEN cmd.kw.aliases[pieces[i]]
                     ELSE pieces[i]]
    IN  IF cmd.kw.dedup THEN FirstOccurrences(post) ELSE post

\* the running call made a tuple of the expected items, or raised ValueError
\* because one of them is not in options
MadeExpected ==
    LET valid == cmd.kw.options.given
                     => \A i \in DOMAIN ExpectedItems :
                            ExpectedItems[i] \in cmd.kw.options.items
    IN  /\ valid => loc.made.ok /\ loc.made.tuple = ExpectedItems
        /\ ~valid => /\ ~loc.made.ok
                     /\ loc.made.exc = "ValueError"
                     /\ loc.made.why = "Invalid option%s: %s"

\* Tuple("a, b, a", sep=", ", dedup=True) == ("a", "b")
MadeExample ==
    (/\ cmd.value = <<AsStr(<<"a", ",", " ", "b", ",", " ", "a">>)>>
     /\ cmd.kw.sep = <<",", " ">>
     /\ cmd.kw.dedup
     /\ ~cmd.kw.options.given
     /\ cmd.kw.aliases = NoAliases)
        => loc.made.ok /\ loc.made.tuple = <<AsStr(<<"a">>), AsStr(<<"b">>)>>

\* every string argument is split on sp, every other argument is one item
SplitsOn(sp) ==
    \A i \in DOMAIN cmd.value :
        IF cmd.value[i].t = "str"
            THEN IsSplit(normalize(cmd.value[i], cmd.kw.sep), cmd.value[i].s, sp)
        ELSE normalize(cmd.value[i], cmd.kw.sep) = <<cmd.value[i]>>

\* C17 (as stated): Tuple splits every string argument on the separator `sep`
\* and strips the parts, replaces every item that has an alias, and only then
\* drops repetitions: with dedup the tuple holds each item after alias
\* resolution once, in order of first occurrence; the options are checked on
\* the items after alias resolution.  Tuple("a, b, a", sep=", ", dedup=True)
\* is ("a", "b").
C17_SplitAliasDedup ==
    (cmd.cmd = "tuple" /\ pc # "idle")
        => /\ loc.made.ok \/ loc.made.why = "Invalid option%s: %s"
           /\ Strip(cmd.kw.sep) # <<>> => SplitsOn(cmd.kw.sep) /\ MadeExpected /\ MadeExample

\* C17 (amended): Tuple splits every string argument on the separator stripped
\* of surrounding whitespace (sep.strip()) and strips the parts, replaces every
\* item that has an alias, and only then drops repetitions: with dedup the
\* tuple holds each item after alias resolution once, in order of first
\* occurrence; the options are checked on the items after alias resolution.
\* With a separator of whitespace only, a string argument makes the
\* construction raise ValueError('empty separator').
\* Tuple("a, b, a", sep=", ", dedup=True) is ("a", "b").
C17_SplitOnStrippedSep ==
    (cmd.cmd = "tuple" /\ pc # "idle")
        => IF Strip(cmd.kw.sep) = <<>> /\ \E i \in DOMAIN cmd.value : cmd.value[i].t = "str"
              THEN /\ ~loc.made.ok
                   /\ loc.made.exc = "ValueError"
                   /\ loc.made.why = "empty separator"
           ELSE SplitsOn(Strip(cmd.kw.sep)) /\ MadeExpected /\ MadeExample

\* C17: Tuple(" x ,a", dedup=True) with the alias x -> a is ("a",), and it
\* passed the options a, b, 1
C17_Witness ==
    /\ cmd.cmd = "tuple"
    /\ cmd.value = <<AsStr(<<" ", "x", " ", ",", "a">>)>>
    /\ cmd.kw.sep = <<",", " ">>
    /\ cmd.kw.dedup
    /\ cmd.kw.options.given
    /\ AsStr(<<"x">>) \in DOMAIN cmd.kw.aliases
    /\ pc = "done"
    /\ loc.made.ok
    /\ loc.made.tuple = <<AsStr(<<"a">>)>>
    /\ loc.s = <<"a">>

(***************************************************************************)
(* Properties of DataCountConverter                                        *)
(***************************************************************************)

\* the last operation on the converter was this one
LastOp(op) == cmd.cmd = "converter" /\ "op" \in DOMAIN loc /\ loc.op = op

\* C18: after any sequence of unit assignments, prefix assignments and
\* conversions the converter's unit is one of the two units and its prefix
\* is metric or binary; an invalid assignment raises ValueError and changes
\* neither; a conversion whose source unit is one of the recognized units
\* returns a Number with the converter's unit and prefix, and a conversion
\* whose source unit is not recognized fails.
C18_ConverterInvariant ==
    cmd.cmd = "converter"
        => /\ loc.conv.unit \in {<<"b">>, <<"B">>}
           /\ loc.conv.prefix \in {"binary", "metric"}
           /\ (LastOp("unit") /\ loc.arg.unit \notin ConverterUnits)
                => ~loc.res.ok /\ loc.res.exc = "ValueError" /\ loc.conv = loc.before
           /\ (LastOp("prefix") /\ loc.arg.prefix \notin {"binary", "metric"})
                => ~loc.res.ok /\ loc.res.exc = "ValueError" /\ loc.conv = loc.before
           /\ LastOp("call")
                => LET source == converter_float(loc.before, loc.arg.num, loc.arg.unit)
                       resolved == IF source.num.args.unit # NoUnit THEN source.num.args.unit
                                   ELSE loc.before.unit
                   IN  /\ loc.conv = loc.before
                       /\ ~source.ok => ~loc.res.ok
                       /\ (source.ok /\ resolved \notin ConverterUnits) => ~loc.res.ok
                       /\ (source.ok /\ resolved \in ConverterUnits)
                            => /\ loc.res.ok
                               /\ loc.res.num.args.unit = loc.conv.unit
                               /\ loc.res.num.args.prefix = loc.conv.prefix

\* C18: converter(1000) on a new converter has raised AttributeError
C18_Witness ==
    /\ LastOp("call")
    /\ loc.before = converter_init
    /\ loc.arg.num = AsRaw(Whole(1000), TRUE)
    /\ loc.arg.unit = NoUnit
    /\ ~loc.res.ok
    /\ loc.res.exc = "AttributeError"

(***************************************************************************)
(* Properties of the `rc` command                                          *)
(***************************************************************************)

\* C19: `rc FILE` runs the lines of the file in file order, one at a time;
\* it fails at the first line whose result is False and runs no later line;
\* a result of None neither stops nor fails it; if no line returns False it
\* succeeds, after the last line.
C19_RcRunsInOrderUntilFalse ==
    (cmd.cmd = "rc" /\ cmd.file.ok)
        => /\ Len(trace) <= Len(cmd.file.lines)
           /\ \A i \in DOMAIN trace :
                 /\ trace[i].ev = "run_async"
                 /\ trace[i].arg.cmdline = cmd.file.lines[i]
                 /\ i < Len(trace) => trace[i].arg.success # "False"
           /\ pc = "rc" => /\ Len(trace) < Len(cmd.file.lines)
                           /\ \A i \in DOMAIN trace : trace[i].arg.success # "False"
           /\ pc = "done"
                => IF \E i \in DOMAIN trace : trace[i].arg.success = "False"
                       THEN result.status = "fail"
                   ELSE result.status = "ok" /\ Len(trace) = Len(cmd.file.lines)

\* C19: of the lines c, b, a, d the first returned None, the second False:
\* the command has failed and a and d were not run
C19_Witness ==
    /\ cmd.cmd = "rc"
    /\ cmd.file.lines = << <<"c">>, <<"b">>, <<"a">>, <<"d">> >>
    /\ pc = "done"
    /\ Len(trace) = 2
    /\ trace[1].arg = [cmdline |-> <<"c">>, success |-> "None"]
    /\ trace[2].arg = [cmdline |-> <<"b">>, success |-> "False"]
    /\ result.status = "fail"

(***************************************************************************)
(* Properties of KeyChain                                                  *)
(***************************************************************************)

\* C20: feed(key) on a chain k1..kn returns ADVANCED when key is the next
\* expected key and not the last, COMPLETED when it is the last, REJECTED
\* when it is not expected and no key has been accepted, and ABORTED when it
\* is not expected and a key has been accepted; after ABORTED the chain is at
\* its start, so that k1 fed next is accepted again.
C20_FeedResults ==
    cmd.cmd = "keychain"
        => LET n == Len(cmd.keys)
               Now(i) == IF i = Len(trace) THEN loc.kc ELSE trace[i + 1].arg.before
           IN  \A i \in DOMAIN trace :
                 trace[i].ev = "feed"
                    => LET before == trace[i].arg.before
                           key == trace[i].arg.key
                           res == trace[i].arg.res
                           expected == before.pos < n /\ key = cmd.keys[before.pos + 1]
                       IN  /\ (expected /\ before.pos + 1 < n)
                                => res = "ADVANCED" /\ Now(i).pos = before.pos + 1
                           /\ (expected /\ before.pos + 1 = n)
                                => res = "COMPLETED" /\ Now(i).pos = n
                           /\ (~expected /\ before.pos = 0)
                                => res = "REJECTED" /\ Now(i).pos = 0
                           /\ (~expected /\ before.pos > 0)
                                => res = "ABORTED" /\ Now(i).pos = 0
                           /\ (/\ i > 1
                               /\ trace[i - 1].ev = "feed"
                               /\ trace[i - 1].arg.res = "ABORTED"
                               /\ key = cmd.keys[1])
                                => res = IF n = 1 THEN "COMPLETED" ELSE "ADVANCED"

\* C20: the chain a b c was fed a, b, x and a: ADVANCED, ADVANCED, ABORTED,
\* ADVANCED
C20_Witness ==
    /\ cmd.cmd = "keychain"
    /\ cmd.keys = << <<"a">>, <<"b">>, <<"c">> >>
    /\ Len(trace) = 4
    /\ [i \in 1..4 |-> trace[i].arg.key] = << <<"a">>, <<"b">>, <<"x">>, <<"a">> >>
    /\ [i \in 1..4 |-> trace[i].arg.res] = <<"ADVANCED", "ADVANCED", "ABORTED", "ADVANCED">>
    /\ loc.kc.pos = 1

(***************************************************************************)
(* Properties of KeyMap                                                    *)
(***************************************************************************)

\* the i-th keypress of the key map in use: [context, key, started, ran]
Press(i) == trace[i].arg

\* the keys of binding b were typed, the last of them at keypress i
KeysEnd(i, b) ==
    /\ i >= Len(b.keys)
    /\ \A j \in 1..Len(b.keys) : Press(i - Len(b.keys) + j).key = b.keys[j]

\* the keys of binding b were typed on a widget of its context, the last of
\* them at keypress i
Typed(i, b) ==
    /\ KeysEnd(i, b)
    /\ \A j \in 1..Len(b.keys) : Press(i - Len(b.keys) + j).context = b.ctx

\* keypress i completes the chain of b, entered from its first key
Completes(i, b) == Typed(i, b) /\ ~Press(i - Len(b.keys) + 1).started

\* the keypresses of the chain of b that ends at keypress i, but the last
Intermediate(i, b) == (i - Len(b.keys) + 1)..(i - 1)

\* the chain of b begins with the whole chain of another binding of its
\* context
Shadowed(b) ==
    \E c \in cmd.config.bindings :
        /\ c.ctx = b.ctx
        /\ Len(c.keys) < Len(b.keys)
        /\ SubSeq(b.keys, 1, Len(c.keys)) = c.keys

\* the keys of b end at keypress i, and the first of them was pressed on a
\* widget of the context of b while no chain was started
EnteredAndTyped(i, b) ==
    /\ KeysEnd(i, b)
    /\ ~Press(i - Len(b.keys) + 1).started
    /\ Press(i - Len(b.keys) + 1).context = b.ctx

\* C21 (as stated): the action of a chain runs at the keypress that completes
\* the chain entered from its first key while no chain was started, and at no
\* other keypress: not at the intermediate ones, not at a keypress that aborts
\* a started chain (whatever is bound to that key), and not at the remaining
\* keys of an aborted chain.
C21_ChainRunsOncePerCompletion ==
    cmd.cmd = "keymap" =>
        \A i \in DOMAIN trace :
            /\ \A b \in cmd.config.bindings :
                  /\ Completes(i, b) <=> Press(i).ran = b.action
                  /\ Completes(i, b) => \A j \in Intermediate(i, b) : Press(j).ran = ""
            /\ Press(i).ran # "" => \E b \in cmd.config.bindings : Completes(i, b)

\* C21 (amended): the action of a chain that does not begin with another
\* bound chain of its context runs at the keypress that completes the chain
\* entered from its first key while no chain was started, and nothing runs at
\* the intermediate keypresses; a chain that begins with another bound chain
\* never runs its action.  An action runs at no other keypress: whenever one
\* runs, the keys of its chain end there and the first of them was pressed
\* while no chain was started, so a keypress that aborts a started chain runs
\* nothing (whatever is bound to that key) and neither do the remaining keys
\* of an aborted chain.
C21_UnshadowedChainRunsOncePerCompletion ==
    cmd.cmd = "keymap" =>
        \A i \in DOMAIN trace :
            /\ \A b \in cmd.config.bindings :
                  /\ (Completes(i, b) /\ ~Shadowed(b))
                        => /\ Press(i).ran = b.action
                           /\ \A j \in Intermediate(i, b) : Press(j).ran = ""
                  /\ Shadowed(b) => Press(i).ran # b.action
                  /\ Press(i).ran = b.action => EnteredAndTyped(i, b)
                  /\ (Press(i).ran = b.action /\ Cardinality(cmd.config.widgets) = 1)
                        => Completes(i, b)
            /\ Press(i).ran # "" => \E b \in cmd.config.bindings : Press(i).ran = b.action
            /\ (Press(i).started /\ ~\E b \in cmd.config.bindings : KeysEnd(i, b) /\ Len(b.keys) > 1)
                  => Press(i).ran = ""

\* 1 2 x 3 ran nothing although x is bound, 1 2 3 typed again ran foo
C21_Witness ==
    /\ cmd.cmd = "keymap"
    /\ Len(trace) = 7
    /\ [i \in 1..7 |-> Press(i).key]
         = << <<"1">>, <<"2">>, <<"x">>, <<"3">>, <<"1">>, <<"2">>, <<"3">> >>
    /\ \A i \in 1..6 : Press(i).ran = ""
    /\ Press(3).started
    /\ Press(7).ran = "foo"
    /\ \E b \in cmd.config.bindings : b.keys = << <<"x">> >> /\ b.action = "bar"

\* the keypress that began the chain in progress at keypress i
StartOf(i) == CHOOSE j \in 1..(i - 1) : ~Press(j).started /\ \A k \in (j + 1)..(i - 1) : Press(k).started

\* keypress i is on a widget of another context than the one that started
\* the chain in progress
OtherContext(i) ==
    i > 1 /\ Press(i).started /\ Press(i).context # Press(StartOf(i)).context

\* the key of keypress i is the next key of a chain whose first keys were
\* typed up to keypress i - 1, beginning while no chain was started
Continues(i) ==
    \E b \in cmd.config.bindings : \E k \in 1..(Len(b.keys) - 1) :
        /\ i > k
        /\ ~Press(i - k).started
        /\ Press(i - k).context = b.ctx
        /\ \A j \in 1..k : Press(i - k + j - 1).key = b.keys[j]
        /\ Press(i).key = b.keys[k + 1]
(***************************************************************************)
(* Properties of the adjustment of a numeric setting                       *)
(***************************************************************************)

\* `set` has adjusted the current value, a number, with `+=d` or `-=d`
Adjusted ==
    /\ Resolved
    /\ pc = "set_write"
    /\ loc.op \in {"__add__", "__sub__"}
    /\ IsNumeric(loc.current)

\* C23: the Number that results from a `+=d` or `-=d` adjustment has the
\* unit, prefix, min and max of the setting's current value.
C23_AdjustmentKeepsProperties ==
    Adjusted =>
        /\ IsNumeric(loc.value)
        /\ loc.value.n.args.unit = loc.current.n.args.unit
        /\ loc.value.n.args.prefix = loc.current.n.args.prefix
        /\ loc.value.n.args.min = loc.current.n.args.min
        /\ loc.value.n.args.max = loc.current.n.args.max

\* `set tui.log.height +=0.5`: the float 10.5 with the minimum of the
\* integer setting and without a unit, like the current value
C23_Witness ==
    /\ Adjusted
    /\ loc.name = TuiLogHeight
    /\ loc.current.n.cls = "Int"
    /\ loc.value.n.cls = "Float"
    /\ loc.value.n.args.min = Whole(1)
    /\ loc.value.n.args.unit = NoUnit
    /\ loc.current.n.args.min = Whole(1)

\* the adjusted current value is positive infinity
InfiniteCurrent == Adjusted /\ loc.current.n.val = PInf

\* +=d gives d and -=d gives -d
FromZero ==
    loc.value.n.val = IF loc.op = "__add__" THEN loc.delta.n.val
                      ELSE FSub_(Whole(0), loc.delta.n.val)

\* C24 as stated: with the current value at positive infinity the adjustment
\* that succeeds gives d or -d, and neither operand of it is infinite.
C24_NoInfiniteOperand ==
    InfiniteCurrent =>
        /\ FromZero
        /\ NumericVal(adjust_current_(loc.current)).k = "fin"
        /\ loc.delta.n.val.k = "fin"

\* C24: with the current value at positive infinity the adjustment that
\* succeeds gives d or -d and is computed from zero: the left operand is 0,
\* and only d itself can be infinite.
C24_AdjustsFromZero ==
    InfiniteCurrent =>
        /\ FromZero
        /\ NumericVal(adjust_current_(loc.current)) = Whole(0)

\* `set srv.limit.rate.up -=0.5` with the limit at infinity gives -0.5
C24_Witness ==
    /\ InfiniteCurrent
    /\ loc.op = "__sub__"
    /\ loc.delta.n.val = Fin(Scale \div 2)
    /\ loc.value.n.val = Fin(0 - (Scale \div 2))

(***************************************************************************)
(* Properties of arithmetic on infinite Numbers                            *)
(***************************************************************************)

\* an operator was applied and an operand of it is infinite
InfiniteOperand ==
    /\ cmd.cmd = "number"
    /\ "res" \in DOMAIN loc
    /\ \/ loc.prev.val.k \in {"pinf", "ninf"}
       \/ /\ loc.funcname \notin {"__floor__", "__ceil__", "__round__"}
          /\ loc.other.val.k \in {"pinf", "ninf"}

\* C25: an operator with an operand of infinite magnitude returns a Float, or
\* raises the ValueError of a bound (`Too small`, `Too big`); nothing else
\* is raised.
C25_InfiniteOperandGivesFloat ==
    InfiniteOperand =>
        IF loc.res.ok THEN loc.res.num.cls = "Float"
        ELSE /\ loc.res.exc = "ValueError"
             /\ loc.res.why \in {"Too small (minimum is %s)", "Too big (maximum is %s)"}

\* 2.0 + inf is the Float inf
C25_Witness ==
    /\ InfiniteOperand
    /\ loc.funcname = "__add__"
    /\ loc.prev.val = Whole(2)
    /\ loc.other.val = PInf
    /\ loc.res.ok
    /\ loc.res.num.cls = "Float"
    /\ loc.res.num.val = PInf

(***************************************************************************)
(* Properties of the Number constructor                                    *)
(***************************************************************************)

\* cls(value, **kw) was called
Constructed == cmd.cmd = "number" /\ "made" \in DOMAIN loc

\* C26: constructing a Float or an Int from any input gives an instance or
\* raises a ValueError with a description; no other exception leaves the
\* constructor.
C26_ConstructorRaisesValueErrorOnly ==
    Constructed =>
        \/ loc.made.ok
        \/ loc.made.exc = "ValueError" /\ loc.made.why # ""

\* Float(object()) has raised ValueError('Not a number: ...')
C26_Witness ==
    /\ Constructed
    /\ cmd.cls = "Float"
    /\ cmd.value.t = "obj"
    /\ ~loc.made.ok
    /\ loc.made.exc = "ValueError"
    /\ loc.made.why = "Not a number: %r"
    /\ result.status = "raise"

(***************************************************************************)
(* Properties of the calls of `ratelimit`                                  *)
(***************************************************************************)

\* LIMIT is absent or `show`
ShowsLimits == cmd.LIMIT = <<>> \/ cmd.LIMIT = <<"s", "h", "o", "w">>

\* LIMIT, trimmed, begins with `+=` or `-=`
AdjustsLimits ==
    /\ Len(Strip(cmd.LIMIT)) >= 2
    /\ Take(Strip(cmd.LIMIT), 2) \in {<<"+", "=">>, <<"-", "=">>}

\* what the user supplied: the signed delta of `+=5` / `-=5`, or the limit
Supplied ==
    IF AdjustsLimits THEN AsStr(<<Strip(cmd.LIMIT)[1]>> \o Drop(Strip(cmd.LIMIT), 2))
    ELSE AsStr(Strip(cmd.LIMIT))

\* C27: LIMIT with `+=` or `-=` leads to adjust_limit_rate_<dir> calls only,
\* with the signed delta; another LIMIT that is not empty and not `show`
\* leads to set_limit_rate_<dir> calls only, with that LIMIT; an absent LIMIT
\* and `show` lead to no set or adjust call; and with a direction that is
\* not `up` or `down` nothing is called at all.
C27_AdjustOrSetBySyntax ==
    cmd.cmd = "ratelimit" =>
        /\ \A j \in DOMAIN trace :
              trace[j].ev \in SetCalls =>
                  /\ ~ShowsLimits
                  /\ trace[j].ev \in (IF AdjustsLimits
                                         THEN {"adjust_limit_rate", "torrent.adjust_limit_rate"}
                                      ELSE {"set_limit_rate", "torrent.set_limit_rate"})
                  /\ trace[j].arg.limit = Supplied
        /\ (\E i \in DOMAIN directions_of(cmd.DIRECTION) :
                directions_of(cmd.DIRECTION)[i] \notin {Up, Down})
              => trace = <<>> /\ pc = "done" /\ result.status = "fail"

\* `ratelimit up " +=5"` has called adjust_limit_rate_up('+5') and nothing else
C27_Witness ==
    /\ cmd.cmd = "ratelimit"
    /\ cmd.LIMIT = <<" ", "+", "=", "5">>
    /\ Len(trace) = 1
    /\ trace[1].ev = "adjust_limit_rate"
    /\ trace[1].arg = Call(Up, AsStr(<<"+", "5">>))

\* C28: in a global `ratelimit` every set or adjust call gets the limit or
\* delta the user supplied, with --quiet and without it: a value read back
\* for one direction is never the argument of the call for the next.
C28_SameLimitForEveryDirection ==
    cmd.cmd = "ratelimit" /\ is_global(cmd.TORRENT_FILTER) =>
        \A j \in DOMAIN trace :
            trace[j].ev \in {"set_limit_rate", "adjust_limit_rate"} =>
                /\ trace[j].arg.limit.t = "str"
                /\ trace[j].arg.limit = Supplied
                /\ \A i \in 1..(j - 1) :
                      trace[i].ev = "info" => trace[j].arg.limit # trace[i].arg.limit

\* the quiet global `ratelimit up,down 1k` has called set_limit_rate_up('1k')
\* and set_limit_rate_down('1k')
C28_Witness ==
    /\ cmd.cmd = "ratelimit"
    /\ cmd.quiet
    /\ pc = "done"
    /\ result.status = "ok"
    /\ Len(trace) = 2
    /\ trace[1] = Event("set_limit_rate", Call(Up, AsStr(<<"1", "k">>)))
    /\ trace[2] = Event("set_limit_rate", Call(Down, AsStr(<<"1", "k">>)))

(***************************************************************************)
(* Properties of the string forms at the edges                             *)
(***************************************************************************)

\* a finite Number that is not zero was constructed in precise mode, printed
\* and parsed again
PreciseTrip ==
    /\ Constructed
    /\ cmd.kw.precise
    /\ "again" \in DOMAIN loc
    /\ loc.made.num.val.k = "fin"
    /\ loc.made.num.val # Fin(0)

\* C29: in precise mode the string form of a finite Number that is not zero
\* denotes the Number's value: parsed again it gives the same value, and an
\* integer value prints as its digits without a decimal point (plus unit).
C29_PreciseStringIsExact ==
    PreciseTrip =>
        /\ loc.again.ok
        /\ loc.again.num.val = loc.made.num.val
        /\ IsIntegral(loc.made.num.val) /\ FSign(loc.made.num.val) > 0
              => loc.s = BDigits_(DTrunc(ToD_(loc.made.num.val))) \o loc.made.num.args.unit

\* Float(100.0, unit='B', precise=True) prints as 100B and parses back to 100
C29_Witness ==
    /\ PreciseTrip
    /\ cmd.cls = "Float"
    /\ loc.made.num.val = Whole(100)
    /\ loc.s = <<"1", "0", "0", "B">>
    /\ loc.again.ok
    /\ loc.again.num.val = Whole(100)

\* the default string form of the constructed Number was made
DefaultForm == Constructed /\ ~cmd.kw.precise /\ "s" \in DOMAIN loc

\* C30: in the default string form every decimal point is followed by a
\* digit: when rounding leaves only zeros after the point, the point goes
\* with them.
C30_NoDanglingDecimalPoint ==
    DefaultForm =>
        \A i \in DOMAIN loc.s :
            loc.s[i] = "." =>
                /\ i < Len(loc.s)
                /\ loc.s[i + 1] \in {"0", "1", "2", "3", "4", "5", "6", "7", "8", "9"}

\* Float(5.001) prints as 5
C30_Witness ==
    /\ DefaultForm
    /\ cmd.cls = "Float"
    /\ loc.made.num.val = Fin(5001)
    /\ loc.s = <<"5">>

============================================================================
